---- MODULE Spec2Model ----
(***************************************************************************)
(* A model of the homelab site: the comment datastore and its handlers,    *)
(* the session middleware, the per-address rate limiter, the comment tree  *)
(* builder, the post search, the credential check, the YAML migration and  *)
(* the starts of the program, the shutdown of main and the in-memory       *)
(* cache.                                                                  *)
(***************************************************************************)
EXTENDS Integers, Sequences, FiniteSets, TLC

\* ------------------------------------------------------------------------
\* Bounds of the model
\* ------------------------------------------------------------------------
MaxComments == 2
MaxTokens == 2
MaxTicks == 2
MaxClock == 1
MaxPassLen == 3
MaxBurst == 2
MaxTreeLen == 3
MaxFieldLen == 3
MaxQueryLen == 2
MaxProcs == 2
MaxYaml == 2
MaxTags == 2
MaxHeaderVals == 2
MaxOps == 2
MaxStarts == 2

\* ------------------------------------------------------------------------
\* Program constants
\* ------------------------------------------------------------------------
\* 24 * time.Hour, in hours (the clock of the model counts hours)
SessionTTL == 24
\* time.NewTicker(1 * time.Hour) of cleanupSessions
SweepPeriod == 1
\* len(content) > 2000
MaxContentLen == 2000
StatusOK == 200
StatusFound == 302
StatusBadRequest == 400
StatusTooManyRequests == 429
StatusNotFound == 404
StatusInternalServerError == 500
MaxOpenConns == 1
\* context.WithTimeout(context.Background(), 15*time.Second), in seconds
GracePeriod == 15
\* time.NewTicker(5 * time.Minute) of the cache's startCleanup, in minutes
CleanupPeriod == 5
\* Blowfish's key schedule reads 18 words of 4 bytes from the key
BcryptKeyBytes == 72

\* db.New opens the file with sql.Open("sqlite3", dbPath) and issues no
\* PRAGMA foreign_keys = ON; SQLite then leaves foreign keys unenforced.
ForeignKeys == FALSE

PostIds == {"p1", "p2"}
Emails == {"", "a@x", "b@x"}
Names == {"", "n"}
ContentLens == {0, 1, MaxContentLen + 1}
Tokens == 1..MaxTokens
NoCookie == 0
\* The token "" that generateSessionToken returns when rand.Read fails
EmptyToken == -1
NULL == 0
Users == {"admin", "other"}
AdminRoutes == {"savePost", "deletePost", "pending", "approve", "deleteComment"}

VARIABLES now, ticks, sessions, usedTokens, areq, posts, comments, nextID,
          approveApplied, resp, auth, cfgPass, cred, rl, rlog, call,
          reqs, services, pool, srv, items, heap, logins

rateVars == <<rl, rlog>>
lifeVars == <<srv, items, heap, logins>>
concVars == <<reqs, services, pool, lifeVars>>
credVars == <<auth, cfgPass, cred, rateVars, call, concVars>>
appVars == <<now, ticks, sessions, usedTokens, areq, posts, comments, nextID,
             approveApplied, resp>>
dbVars == <<posts, comments, nextID>>

vars == <<appVars, credVars>>

\* No HTTP server: the value of srv where main's shutdown is not modelled
NoServer == [pc |-> "none", deadline |-> 0, err |-> "", closed |-> FALSE]

\* ------------------------------------------------------------------------
\* Helpers over finite maps
\* ------------------------------------------------------------------------
Remove(f, k) == [x \in (DOMAIN f) \ {k} |-> f[x]]
Put(f, k, v) == [x \in (DOMAIN f) \cup {k} |-> IF x = k THEN v ELSE f[x]]

\* ------------------------------------------------------------------------
\* Datastore: comments
\* ------------------------------------------------------------------------
\* ORDER BY created_at ASC over a set of row ids (ties in rowid order)
RECURSIVE OrderByCreatedAt(_, _)
OrderByCreatedAt(rows, ids) ==
  IF ids = {} THEN <<>>
  ELSE LET first == CHOOSE i \in ids : \A j \in ids :
                       \/ rows[i].created_at < rows[j].created_at
                       \/ rows[i].created_at = rows[j].created_at /\ i <= j
       IN <<first>> \o OrderByCreatedAt(rows, ids \ {first})

Row(rows, i) == [id |-> i] @@ rows[i]

\* Mutant: the listing without the approved = 1 filter
GetCommentsByPostID_unfiltered(rows, postID) ==
  LET ids == {i \in DOMAIN rows : rows[i].post_id = postID}
      ord == OrderByCreatedAt(rows, ids)
  IN [k \in 1..Len(ord) |-> Row(rows, ord[k])]

\* SELECT ... WHERE post_id = ? AND approved = 1 ORDER BY created_at ASC
GetCommentsByPostID(rows, postID) ==
  LET ids == {i \in DOMAIN rows : rows[i].post_id = postID /\ rows[i].approved}
      ord == OrderByCreatedAt(rows, ids)
  IN [k \in 1..Len(ord) |-> Row(rows, ord[k])]

\* SELECT COUNT(*) FROM comments WHERE post_id = ? AND approved = 1
GetCommentCount(rows, postID) ==
  Cardinality({i \in DOMAIN rows : rows[i].post_id = postID /\ rows[i].approved})

\* SELECT ... WHERE approved = 0 (the order of the rows is not modelled)
GetPendingComments(rows) == {i \in DOMAIN rows : ~rows[i].approved}

\* INSERT INTO comments ...; the id is the AUTOINCREMENT sequence
SaveComment(rows, id, c) == Put(rows, id, c)

\* Mutant: an approval that flips the flag
ApproveComment_toggle(rows, id) ==
  [i \in DOMAIN rows |->
     IF i = id THEN [rows[i] EXCEPT !.approved = ~rows[i].approved]
     ELSE rows[i]]

\* UPDATE comments SET approved = 1 WHERE id = ?
ApproveComment(rows, id) ==
  [i \in DOMAIN rows |-> IF i = id THEN [rows[i] EXCEPT !.approved = TRUE] ELSE rows[i]]

\* The rows a DELETE of comment ids S takes with it through
\* FOREIGN KEY (parent_id) REFERENCES comments(id) ON DELETE CASCADE
RECURSIVE CascadeComments(_, _)
CascadeComments(rows, S) ==
  LET more == {i \in DOMAIN rows : rows[i].parent_id \in S} \ S
  IN IF more = {} THEN S ELSE CascadeComments(rows, S \cup more)

\* DELETE FROM comments WHERE id = ?
DeleteComment(rows, id) ==
  LET gone == IF ForeignKeys THEN CascadeComments(rows, {id}) ELSE {id}
  IN [i \in (DOMAIN rows) \ gone |-> rows[i]]

\* ------------------------------------------------------------------------
\* Datastore: posts
\* ------------------------------------------------------------------------
\* INSERT ... ON CONFLICT(id) DO UPDATE
SavePost(ps, id, v) == Put(ps, id, v)

\* DELETE FROM posts WHERE id = ?  (the posts table)
DeletePost(ps, id) == Remove(ps, id)

\* The comment rows left by DELETE FROM posts WHERE id = ?:
\* FOREIGN KEY (post_id) REFERENCES posts(id) ON DELETE CASCADE acts only
\* when the connection enforces foreign keys.
DeletePostComments(rows, id) ==
  LET direct == {i \in DOMAIN rows : rows[i].post_id = id}
      gone == IF ForeignKeys THEN CascadeComments(rows, direct) ELSE {}
  IN [i \in (DOMAIN rows) \ gone |-> rows[i]]

\* ------------------------------------------------------------------------
\* Comment tree and the public listing
\* ------------------------------------------------------------------------
\* commentMap[comments[i].ID] = &comments[i]: the index the map holds for id
\* (0 when the id is not in the list; a later entry overwrites an earlier)
MapIndex(arr, id) ==
  LET hits == {k \in 1..Len(arr) : arr[k].id = id}
  IN IF hits = {} THEN 0 ELSE CHOOSE k \in hits : \A m \in hits : m <= k

\* The second loop of buildCommentTree from index i on.  append(roots,
\* *comment) and append(parent.Replies, *comment) copy the struct, so the
\* copy keeps the Replies the comment has at that moment.
RECURSIVE BuildLoop(_, _, _)
BuildLoop(arr, roots, i) ==
  IF i > Len(arr) THEN roots
  ELSE IF arr[i].parent_id = NULL
       THEN BuildLoop(arr, Append(roots, arr[i]), i + 1)
       ELSE LET p == MapIndex(arr, arr[i].parent_id)
            IN IF p # 0
               THEN BuildLoop([arr EXCEPT ![p].replies = Append(@, arr[i])],
                              roots, i + 1)
               ELSE BuildLoop(arr, roots, i + 1)

buildCommentTree(list) ==
  BuildLoop([k \in 1..Len(list) |-> [replies |-> <<>>] @@ list[k]], <<>>, 1)

\* json.NewEncoder(w).Encode of a models.Comment: every tagged field
RECURSIVE JSONComment(_)
JSONComment(c) ==
  [id |-> c.id, post_id |-> c.post_id, parent_id |-> c.parent_id,
   author_name |-> c.author_name, author_email |-> c.author_email,
   content |-> c.content, created_at |-> c.created_at,
   approved |-> c.approved,
   replies |-> [k \in 1..Len(c.replies) |-> JSONComment(c.replies[k])]]

\* renderComment: author name, date, content and the replies
RECURSIVE renderComment(_)
renderComment(c) ==
  [author |-> c.author_name, date |-> c.created_at, content |-> c.content,
   replies |-> [k \in 1..Len(c.replies) |-> renderComment(c.replies[k])]]

\* The response body of HandleGetComments for post postID; hx is the
\* HX-Request header being "true"
HandleGetCommentsBody(rows, postID, hx) ==
  LET tree == buildCommentTree(GetCommentsByPostID(rows, postID))
  IN IF hx
     THEN [type |-> "text/html",
           body |-> [k \in 1..Len(tree) |-> renderComment(tree[k])]]
     ELSE [type |-> "application/json",
           body |-> [k \in 1..Len(tree) |-> JSONComment(tree[k])]]

\* ------------------------------------------------------------------------
\* Session middleware
\* ------------------------------------------------------------------------
\* The zero time.Time a map read yields for a missing key: earlier than
\* every clock value
ZeroTime == -1
NoLook == [exists |-> FALSE, expiry |-> ZeroTime]

\* expiry, exists := am.sessions[cookie.Value], read under the read lock
Lookup(sess, cookie) ==
  IF cookie \in DOMAIN sess
  THEN [exists |-> TRUE, expiry |-> sess[cookie]]
  ELSE NoLook

\* Mutant: the check without the expiry comparison
Rejected_noExpiry(look, t) == ~look.exists

\* Mutant: the check admitting a token the store does not hold
Rejected_noLookup(look, t) == look.exists /\ t > look.expiry

\* !exists || time.Now().After(expiry), on the values read before the
\* read lock was released
Rejected(look, t) == ~look.exists \/ t > look.expiry

\* Mutant: a sweep that also removes the tokens expiring at the sweep time
Sweep_atOrBefore(sess, t) ==
  [k \in {x \in DOMAIN sess : ~(t >= sess[x])} |-> sess[k]]

\* for token, expiry := range am.sessions { if now.After(expiry) delete }
Sweep(sess, t) == [k \in {x \in DOMAIN sess : ~(t > sess[x])} |-> sess[k]]

\* ------------------------------------------------------------------------
\* Credentials
\* ------------------------------------------------------------------------
Bytes == {0, 1, 2}
SeqsUpTo(S, n) == UNION {[1..k -> S] : k \in 0..n}
\* A password sent in a login form: any bytes
Passwords == SeqsUpTo(Bytes, MaxPassLen)
\* A password configured through ADMIN_PASS: non-empty, no NUL byte
AdminPasswords == SeqsUpTo(Bytes \ {0}, MaxPassLen) \ {<<>>}

\* The key bcrypt feeds to Blowfish: the password with a NUL appended
\* (ckey := append(key, 0)), read cyclically for BcryptKeyBytes bytes by
\* ExpandKey.  The salt and cost are those of the stored hash in both
\* GenerateFromPassword and CompareHashAndPassword, so two passwords give
\* the same hash exactly when they give the same key bytes.
BcryptKey(password) ==
  LET ckey == Append(password, 0)
  IN [i \in 1..BcryptKeyBytes |-> ckey[((i - 1) % Len(ckey)) + 1]]

\* bcrypt.GenerateFromPassword([]byte(adminPass), bcrypt.DefaultCost)
GenerateFromPassword(password) == BcryptKey(password)

\* bcrypt.CompareHashAndPassword(hash, password) == nil
CompareHashAndPassword(hash, password) == BcryptKey(password) = hash

NewAuthMiddleware(adminUser, adminPass) ==
  [adminUser |-> adminUser, passwordHash |-> GenerateFromPassword(adminPass)]

ValidateCredentials(am, username, password) ==
  IF username # am.adminUser THEN FALSE
  ELSE CompareHashAndPassword(am.passwordHash, password)

NoLimiter == [b |-> 0, limiters |-> <<>>]
NoCall == [fn |-> "none", arg |-> <<>>, out |-> <<>>, done |-> FALSE]
NoCred == [username |-> "", password |-> <<>>, result |-> FALSE, called |-> FALSE]

Idle == [pc |-> "idle", cookie |-> NoCookie, valid |-> FALSE,
         look |-> NoLook]

Resp(h, status) == [h |-> h, status |-> status, cookie |-> NoCookie]

sessVars == <<now, ticks, sessions, usedTokens, areq>>

\* The state after construction: the posts of the YAML migration are
\* stored, no comment, no session, no request in flight (reqs holds the
\* comments whose submission has read the clock and not yet saved).
Init ==
  /\ now = 0
  /\ reqs = <<>>
  /\ services = <<>>
  /\ pool = 0
  /\ srv = NoServer
  /\ items = <<>>
  /\ heap = <<>>
  /\ logins = <<>>
  /\ ticks = 0
  /\ sessions = <<>>
  /\ usedTokens = {}
  /\ areq = Idle
  /\ posts = [p \in PostIds |-> 1]
  /\ comments = <<>>
  /\ nextID = 1
  /\ approveApplied = {}
  /\ resp = Resp("none", 0)
  /\ cfgPass = <<1>>
  /\ auth = NewAuthMiddleware("admin", cfgPass)
  /\ cred = NoCred
  /\ rl = NoLimiter
  /\ rlog = <<>>
  /\ call = NoCall

\* Time passes: d hours
Tick(d) ==
  /\ ticks < MaxTicks
  /\ now' = now + d
  /\ ticks' = ticks + 1
  /\ UNCHANGED <<sessions, usedTokens, areq, dbVars, approveApplied, resp,
                 credVars>>

\* ------------------------------------------------------------------------
\* Handlers: what each does to the datastore and the response
\* ------------------------------------------------------------------------
HandleAPISavePost(id, v) ==
  /\ posts' = SavePost(posts, id, v)
  /\ resp' = Resp("savePost", StatusOK)
  /\ UNCHANGED <<comments, nextID, approveApplied>>

HandleAPIDeletePost(id) ==
  /\ posts' = DeletePost(posts, id)
  /\ comments' = DeletePostComments(comments, id)
  /\ resp' = Resp("deletePost", StatusOK)
  /\ UNCHANGED <<nextID, approveApplied>>

HandleGetPendingComments ==
  /\ resp' = Resp("pending", StatusOK)
  /\ UNCHANGED <<dbVars, approveApplied>>

\* approveApplied records the rows ApproveComment has updated
HandleApproveComment(id) ==
  /\ comments' = ApproveComment(comments, id)
  /\ approveApplied' = IF id \in DOMAIN comments
                        THEN approveApplied \cup {id}
                        ELSE approveApplied
  /\ resp' = Resp("approve", StatusOK)
  /\ UNCHANGED <<posts, nextID>>

HandleDeleteComment(id) ==
  /\ comments' = DeleteComment(comments, id)
  /\ resp' = Resp("deleteComment", StatusOK)
  /\ UNCHANGED <<posts, nextID, approveApplied>>

\* The frame of a step of the submission handler
submitFrame == <<sessVars, auth, cfgPass, cred, rateVars, call, services,
                 pool, lifeVars>>

\* comment := &models.Comment{...}: the value SaveComment is called with,
\* CreatedAt being the time.Now() of the handler
NewComment(postID, authorName, authorEmail, contentLen, t) ==
  [post_id |-> postID, parent_id |-> NULL, author_name |-> authorName,
   author_email |-> authorEmail, content |-> contentLen, created_at |-> t,
   approved |-> FALSE]

\* Mutant: the submission handler without the length check
HandlePostComment_noLengthCheck(postID, authorName, authorEmail, contentLen) ==
  /\ IF authorName = "" \/ authorEmail = "" \/ contentLen = 0
     THEN /\ resp' = Resp("HandlePostComment", StatusBadRequest)
          /\ UNCHANGED reqs
     ELSE /\ nextID + Len(reqs) <= MaxComments
          /\ reqs' = Append(reqs, NewComment(postID, authorName, authorEmail,
                                             contentLen, now))
          /\ UNCHANGED resp
  /\ UNCHANGED <<dbVars, approveApplied, submitFrame>>

\* POST /api/posts/{id}/comments up to the call of db.SaveComment; the form
\* values are taken after strings.TrimSpace, the content by its length.
\* A form that fails the validation is answered 400.  For any other the
\* comment is built with the clock of this moment, and reqs holds it
\* until SaveComment gets the connection of the pool.
HandlePostComment(postID, authorName, authorEmail, contentLen) ==
  /\ IF authorName = "" \/ authorEmail = "" \/ contentLen = 0
        \/ contentLen > MaxContentLen
     THEN /\ resp' = Resp("HandlePostComment", StatusBadRequest)
          /\ UNCHANGED reqs
     ELSE /\ nextID + Len(reqs) <= MaxComments
          /\ reqs' = Append(reqs, NewComment(postID, authorName, authorEmail,
                                             contentLen, now))
          /\ UNCHANGED resp
  /\ UNCHANGED <<dbVars, approveApplied, submitFrame>>

\* db.SaveComment of the k-th submission in flight and the answer that
\* follows it: the row gets its id at the INSERT and keeps the created_at
\* the handler read, whichever submission read the clock first
HandlePostCommentSave(k) ==
  /\ k \in 1..Len(reqs)
  /\ comments' = SaveComment(comments, nextID, reqs[k])
  /\ nextID' = nextID + 1
  /\ reqs' = SubSeq(reqs, 1, k - 1) \o SubSeq(reqs, k + 1, Len(reqs))
  /\ resp' = Resp("HandlePostComment", StatusOK)
  /\ UNCHANGED <<posts, approveApplied, submitFrame>>

\* GET /api/posts/{id}/comments
HandleGetComments(postID) ==
  /\ resp' = Resp("HandleGetComments", StatusOK)
  /\ UNCHANGED <<dbVars, approveApplied>>

\* ------------------------------------------------------------------------
\* The datastore and its handlers (the admin handlers as run for an
\* admitted request)
\* ------------------------------------------------------------------------
Serve(handler) == handler /\ UNCHANGED <<sessVars, credVars>>

\* The comment forms submitted: an acceptable one, and for each validation
\* rule one form that breaks it alone
CommentForms ==
  {f \in [name : Names, email : Emails \ {"b@x"}, len : ContentLens] :
     \/ f.email = "a@x" /\ f.len = 1
     \/ f.name # "" /\ f.len = 1
     \/ f.name # "" /\ f.email = "a@x"}

Next ==
  \/ now < MaxClock /\ Tick(1)
  \/ \E p \in PostIds, f \in CommentForms :
        HandlePostComment(p, f.name, f.email, f.len)
  \/ \E k \in 1..MaxComments : HandlePostCommentSave(k)
  \/ \E p \in PostIds : Serve(HandleGetComments(p))
  \/ \E p \in PostIds : Serve(HandleAPISavePost(p, 1))
  \/ \E p \in PostIds : Serve(HandleAPIDeletePost(p))
  \/ Serve(HandleGetPendingComments)
  \/ \E i \in 1..MaxComments : Serve(HandleApproveComment(i))
  \/ \E i \in 1..MaxComments : Serve(HandleDeleteComment(i))

Spec == Init /\ [][Next]_vars

\* ------------------------------------------------------------------------
\* The session middleware in front of the admin handlers
\* ------------------------------------------------------------------------
\* The RequireAuth wrapper up to the release of the read lock: the cookie
\* is read (a request without one is redirected) and the session map is
\* looked up.  The field valid records whether the token is in the store
\* and unexpired at this moment.  The wrapper reads nothing of the request
\* but the cookie; the route is an input of the step that calls next.
RequireAuth(cookie) ==
  /\ areq.pc = "idle"
  /\ IF cookie = NoCookie
     THEN /\ resp' = [h |-> "RequireAuth", status |-> StatusFound,
                      cookie |-> cookie]
          /\ UNCHANGED areq
     ELSE /\ areq' = [pc |-> "looked", cookie |-> cookie,
                      valid |-> (cookie \in DOMAIN sessions
                                 /\ sessions[cookie] >= now),
                      look |-> Lookup(sessions, cookie)]
          /\ UNCHANGED resp
  /\ UNCHANGED <<now, ticks, sessions, usedTokens, dbVars, approveApplied,
                 credVars>>

\* The test of RequireAuth, made after the read lock is released, on the
\* values the lookup returned and the clock of this moment
CheckExpiry ==
  /\ areq.pc = "looked"
  /\ IF Rejected(areq.look, now)
     THEN /\ resp' = [h |-> "RequireAuth", status |-> StatusFound,
                      cookie |-> areq.cookie]
          /\ areq' = Idle
     ELSE /\ areq' = [areq EXCEPT !.pc = "checked"]
          /\ UNCHANGED resp
  /\ UNCHANGED <<now, ticks, sessions, usedTokens, dbVars, approveApplied,
                 credVars>>

\* Second half: am.sessions[cookie.Value] = time.Now().Add(24 * time.Hour)
ExtendSession ==
  /\ areq.pc = "checked"
  /\ sessions' = Put(sessions, areq.cookie, now + SessionTTL)
  /\ areq' = [areq EXCEPT !.pc = "extended"]
  /\ UNCHANGED <<now, ticks, usedTokens, dbVars, approveApplied, resp,
                 credVars>>

\* next(w, r): the wrapped handler of the route
AdminHandler(route, arg, v) ==
  /\ areq.pc = "extended"
  /\ areq' = Idle
  /\ CASE route = "savePost" -> HandleAPISavePost(arg, v)
       [] route = "deletePost" -> HandleAPIDeletePost(arg)
       [] route = "pending" -> HandleGetPendingComments
       [] route = "approve" -> HandleApproveComment(arg)
       [] route = "deleteComment" -> HandleDeleteComment(arg)
  /\ UNCHANGED <<now, ticks, sessions, usedTokens, credVars>>

\* The frame of the steps of a login
loginFrame == <<auth, cfgPass, cred, rateVars, call, reqs, services, pool,
                srv, items, heap>>

\* 32 bytes of rand.Read in base64, modelled as the next token no earlier
\* login has drawn
FreshToken(drawn) == Cardinality(drawn) + 1

\* generateSessionToken: the random token, or "" when rand.Read returns an
\* error
generateSessionToken(drawn) == {FreshToken(drawn), EmptyToken}

\* POST /admin/login up to the wait for the session lock.  Credentials that
\* fail are answered with the login page.  For the others CreateSession
\* draws its token t and reads the clock for the expiry; logins holds the
\* pair until the lock is taken.  usedTokens counts the draws made.
HandleLogin(username, password, t) ==
  /\ IF ~ValidateCredentials(auth, username, password)
     THEN /\ resp' = Resp("HandleLogin", StatusOK)
          /\ UNCHANGED <<usedTokens, logins>>
     ELSE /\ FreshToken(usedTokens) \in Tokens
          /\ t \in generateSessionToken(usedTokens)
          /\ logins' = Append(logins, [token |-> t,
                                       expiry |-> now + SessionTTL])
          /\ usedTokens' = usedTokens \cup {FreshToken(usedTokens)}
          /\ UNCHANGED resp
  /\ UNCHANGED <<now, ticks, sessions, areq, dbVars, approveApplied,
                 loginFrame>>

\* The rest of CreateSession for the k-th login in flight, and the answer
\* of HandleLogin: am.sessions[sessionToken] = expiry under the lock, with
\* the expiry read before the lock was taken; the cookie; the redirect
CreateSession(k) ==
  /\ k \in 1..Len(logins)
  /\ sessions' = Put(sessions, logins[k].token, logins[k].expiry)
  /\ logins' = SubSeq(logins, 1, k - 1) \o SubSeq(logins, k + 1, Len(logins))
  /\ resp' = [h |-> "HandleLogin", status |-> StatusFound,
              cookie |-> logins[k].token]
  /\ UNCHANGED <<now, ticks, usedTokens, areq, dbVars, approveApplied,
                 loginFrame>>

\* GET /admin/logout: DeleteSession(cookie.Value) when a cookie is sent
HandleLogout(cookie) ==
  /\ sessions' = IF cookie = NoCookie THEN sessions ELSE Remove(sessions, cookie)
  /\ resp' = Resp("HandleLogout", StatusFound)
  /\ UNCHANGED <<now, ticks, usedTokens, areq, dbVars, approveApplied,
                 credVars>>

\* One round of the ticker loop of cleanupSessions
cleanupSessions ==
  /\ now >= SweepPeriod
  /\ sessions' = Sweep(sessions, now)
  /\ UNCHANGED <<now, ticks, usedTokens, areq, dbVars, approveApplied, resp,
                 credVars>>

LoginPasswords == {<<1>>, <<2>>, <<1, 0, 1>>}
Cookies == Tokens \cup {NoCookie}

\* A datastore left by an earlier run: one pending comment on p1
InitAuth ==
  /\ now = 0
  /\ reqs = <<>>
  /\ services = <<>>
  /\ pool = 0
  /\ srv = NoServer
  /\ items = <<>>
  /\ heap = <<>>
  /\ logins = <<>>
  /\ ticks = 0
  /\ sessions = <<>>
  /\ usedTokens = {}
  /\ areq = Idle
  /\ posts = [p \in PostIds |-> 1]
  /\ comments = (1 :> [post_id |-> "p1", parent_id |-> NULL,
                       author_name |-> "n", author_email |-> "a@x",
                       content |-> 1, created_at |-> 0, approved |-> FALSE])
  /\ nextID = 2
  /\ approveApplied = {}
  /\ resp = Resp("none", 0)
  /\ cfgPass = <<1>>
  /\ auth = NewAuthMiddleware("admin", cfgPass)
  /\ cred = NoCred
  /\ rl = NoLimiter
  /\ rlog = <<>>
  /\ call = NoCall

\* The logins and the admin requests of one connection, served one after
\* the other (rand.Read succeeding), with logouts, the clock and the sweep
\* in between
NextAuth ==
  \/ Tick(SessionTTL)
  \/ logins = <<>> /\ \E c \in Cookies : RequireAuth(c)
  \/ CheckExpiry
  \/ ExtendSession
  \/ AdminHandler("savePost", "p1", 1)
  \/ AdminHandler("deletePost", "p1", 0)
  \/ AdminHandler("pending", NULL, 0)
  \/ \E r \in {"approve", "deleteComment"} : AdminHandler(r, 1, 0)
  \/ /\ logins = <<>>
     /\ areq.pc = "idle"
     /\ \E u \in Users, pw \in LoginPasswords :
          HandleLogin(u, pw, FreshToken(usedTokens))
  \/ CreateSession(1)
  \/ \E c \in Cookies : HandleLogout(c)
  \/ cleanupSessions

SpecAuth == InitAuth /\ [][NextAuth]_vars

\* ------------------------------------------------------------------------
\* Properties
\* ------------------------------------------------------------------------
\* C1: a comment is in the public listing of its post, or counted by
\* GetCommentCount, only if ApproveComment has been applied to its id.
C1_PendingNeverPublic ==
  \A p \in PostIds :
    LET listed == GetCommentsByPostID(comments, p)
        body == HandleGetCommentsBody(comments, p, FALSE).body
        okIds == {i \in DOMAIN comments :
                    comments[i].post_id = p /\ i \in approveApplied}
    IN /\ \A k \in 1..Len(listed) : listed[k].id \in approveApplied
       /\ \A k \in 1..Len(body) : body[k].id \in approveApplied
       /\ GetCommentCount(comments, p) <= Cardinality(okIds)

\* C1 witness: a post with one approved, listed comment and one pending one
C1_Witness ==
  \E p \in PostIds, i, j \in DOMAIN comments :
    /\ comments[i].post_id = p /\ comments[j].post_id = p
    /\ comments[i].approved /\ ~comments[j].approved
    /\ Len(GetCommentsByPostID(comments, p)) = 1
    /\ GetCommentCount(comments, p) = 1

\* C2: a step that deletes post p leaves no comment row with post_id = p,
\* approved or pending.
C2_DeletePostCascades ==
  [][\A p \in PostIds :
       (p \in DOMAIN posts /\ p \notin DOMAIN posts')
         => \A i \in DOMAIN comments' : comments'[i].post_id # p]_vars

\* C3: a request passes the test of RequireAuth only with a token that the
\* lookup found and whose expiry, as read and as stored at the moment of
\* the test, is not earlier than the current time; a request it turns away
\* is redirected, ends with the request slot idle (the handler is not
\* invoked) and leaves the session store as it is.
C3_ExpiredTokenRejected ==
  [][/\ (areq.pc = "looked" /\ areq'.pc = "checked")
          => /\ areq.look.exists
             /\ ~(areq.look.expiry < now)
             /\ areq.cookie \in DOMAIN sessions
                  => ~(sessions[areq.cookie] < now)
     /\ (resp' # resp /\ resp'.h = "RequireAuth")
          => /\ resp'.status = StatusFound
             /\ areq'.pc = "idle"
             /\ sessions' = sessions]_vars

\* C3 witness: a request carrying a token that is still in the store, with
\* its expiry passed, has been redirected
C3_Witness ==
  /\ resp.h = "RequireAuth"
  /\ resp.cookie \in DOMAIN sessions
  /\ sessions[resp.cookie] < now
  /\ areq.pc = "idle"

\* C5: the datastore changes, and an admin handler answers, only in the
\* handler step of a request whose token was in the store and unexpired at
\* the check; a request RequireAuth turns away is redirected and changes
\* no datastore state.
C5_AdminNeedsSession ==
  [][/\ (dbVars' # dbVars \/ (resp' # resp /\ resp'.h \in AdminRoutes))
          => (areq.pc = "extended" /\ areq.valid)
     /\ (resp' # resp /\ resp'.h = "RequireAuth")
          => (resp'.status = StatusFound /\ dbVars' = dbVars)
     /\ (areq'.pc = "extended" /\ areq.pc # "extended")
          => (areq.pc = "checked" /\ areq.valid)]_vars

\* C5 witness: the approve handler has run for an admitted request and
\* changed the comment
C5_Witness ==
  /\ resp.h = "approve"
  /\ 1 \in DOMAIN comments
  /\ comments[1].approved
  /\ 1 \in approveApplied

\* C7: the response of HandleGetComments (JSON and HTML) for every post is
\* the same when the author_email of any comment is replaced by another.
C7_EmailNotExposed ==
  \A p \in PostIds, hx \in BOOLEAN, i \in DOMAIN comments,
     e \in Emails \ {""} :
    HandleGetCommentsBody([comments EXCEPT ![i].author_email = e], p, hx)
      = HandleGetCommentsBody(comments, p, hx)

\* ------------------------------------------------------------------------
\* Rate limiter
\* ------------------------------------------------------------------------
\* Mutant: X-Real-IP looked at first
getIP_realIPFirst(r) ==
  IF r.realIP # "" THEN r.realIP
  ELSE IF r.forwarded # "" THEN r.forwarded
  ELSE r.remoteAddr

\* getIP: X-Forwarded-For, else X-Real-IP, else RemoteAddr
getIP(r) ==
  IF r.forwarded # "" THEN r.forwarded
  ELSE IF r.realIP # "" THEN r.realIP
  ELSE r.remoteAddr

Requests == [forwarded : {"", "1.1.1.1"}, realIP : {"2.2.2.2"},
             remoteAddr : {"10.0.0.1:1"}]

\* limiter.Allow(): a token is there to take
Allow(tokens) == tokens >= 1

\* ------------------------------------------------------------------------
\* buildCommentTree on its own
\* ------------------------------------------------------------------------
\* The approved comments of one post as GetCommentsByPostID returns them,
\* ordered by created_at.  created_at is the value the caller of
\* SaveComment read from the clock and the id is given at the INSERT, so
\* the ids are distinct and stand in any order.  Each parent_id is NULL or
\* the id of a comment stored before the reply, which may or may not be
\* in the list and may stand after its reply.
TreeInputsOfLen(n) ==
  UNION {
    {[k \in 1..n |-> [id |-> ids[k], parent_id |-> par[k]]] :
        par \in {q \in [1..n -> 0..MaxTreeLen] : \A k \in 1..n : q[k] < ids[k]}}
    : ids \in {f \in [1..n -> 1..(MaxTreeLen + 1)] :
                 \A a, b \in 1..n : a # b => f[a] # f[b]} }

TreeInputs == UNION {TreeInputsOfLen(n) : n \in 0..MaxTreeLen}

InitTree ==
  /\ now = 0
  /\ reqs = <<>>
  /\ services = <<>>
  /\ pool = 0
  /\ srv = NoServer
  /\ items = <<>>
  /\ heap = <<>>
  /\ logins = <<>>
  /\ ticks = 0
  /\ sessions = <<>>
  /\ usedTokens = {}
  /\ areq = Idle
  /\ posts = <<>>
  /\ comments = <<>>
  /\ nextID = 1
  /\ approveApplied = {}
  /\ resp = Resp("none", 0)
  /\ cfgPass = <<1>>
  /\ auth = NewAuthMiddleware("admin", cfgPass)
  /\ cred = NoCred
  /\ rl = NoLimiter
  /\ rlog = <<>>
  /\ \E list \in TreeInputs :
       call = [fn |-> "buildCommentTree", arg |-> list, out |-> <<>>,
               done |-> FALSE]

CallBuildCommentTree ==
  /\ call.fn = "buildCommentTree"
  /\ ~call.done
  /\ call' = [call EXCEPT !.out = buildCommentTree(call.arg), !.done = TRUE]
  /\ UNCHANGED <<appVars, auth, cfgPass, cred, rateVars, concVars>>

NextTree == CallBuildCommentTree

SpecTree == InitTree /\ [][NextTree]_vars

\* The nodes of a forest, at every depth
RECURSIVE Nodes(_)
Nodes(forest) ==
  UNION {{forest[k]} \cup Nodes(forest[k].replies) : k \in 1..Len(forest)}

\* How often id occurs in the forest from root k on, at every depth
RECURSIVE Occurrences(_, _, _)
Occurrences(forest, id, k) ==
  IF k > Len(forest) THEN 0
  ELSE (IF forest[k].id = id THEN 1 ELSE 0)
       + Occurrences(forest[k].replies, id, 1)
       + Occurrences(forest, id, k + 1)

\* The comment with this id and all its ancestors are in the list
RECURSIVE AncestorsInList(_, _)
AncestorsInList(list, id) ==
  \E k \in 1..Len(list) :
    /\ list[k].id = id
    /\ \/ list[k].parent_id = NULL
       \/ AncestorsInList(list, list[k].parent_id)

\* The comments of one level stand in the order the list has them in
Chronological(list, level) ==
  \A a, b \in 1..Len(level) :
    a < b => MapIndex(list, level[a].id) < MapIndex(list, level[b].id)

\* C6: the result of buildCommentTree holds every parentless comment as a
\* root, every comment whose parent is in the list among that parent's
\* replies at every depth, every comment whose ancestors are all in the
\* list exactly once, and each level in chronological order.
C6_TreeIsForest ==
  (call.fn = "buildCommentTree" /\ call.done) =>
    LET list == call.arg
        out == call.out
        ids == {list[k].id : k \in 1..Len(list)}
    IN /\ \A k \in 1..Len(list) :
            list[k].parent_id = NULL
              => \E r \in 1..Len(out) : out[r].id = list[k].id
       /\ \A k \in 1..Len(list) :
            list[k].parent_id \in ids
              => \A n \in Nodes(out) :
                   n.id = list[k].parent_id
                     => \E j \in 1..Len(n.replies) :
                          n.replies[j].id = list[k].id
       /\ \A k \in 1..Len(list) :
            AncestorsInList(list, list[k].id)
              => Occurrences(out, list[k].id, 1) = 1
       /\ Chronological(list, out)
       /\ \A n \in Nodes(out) : Chronological(list, n.replies)

\* ------------------------------------------------------------------------
\* Post search
\* ------------------------------------------------------------------------
\* Text is a sequence of characters.  "A"/"a" is an ASCII letter pair,
\* "U+00C9"/"U+00E9" the capital and small e with acute accent, a letter
\* pair outside ASCII; "_" and "%" are the wildcards of LIKE.
Chars == {"a", "A", "U+00E9", "U+00C9", "_", ","}

\* SQLite's LIKE folds the case of ASCII letters only
AsciiLower(c) == IF c = "A" THEN "a" ELSE c

\* unicode.SimpleFold as strings.EqualFold uses it: every letter folds
SimpleFold(c) == IF c = "A" THEN "a" ELSE IF c = "U+00C9" THEN "U+00E9" ELSE c

\* strings.EqualFold(t, u)
EqualFold(t, u) ==
  /\ Len(t) = Len(u)
  /\ \A i \in 1..Len(t) : SimpleFold(t[i]) = SimpleFold(u[i])

\* str LIKE pattern in SQLite: % matches any run of characters, _ any one
\* character, any other character itself up to ASCII case; no escape
RECURSIVE Like(_, _)
Like(pattern, str) ==
  IF pattern = <<>> THEN str = <<>>
  ELSE IF Head(pattern) = "%"
       THEN \E k \in 0..Len(str) :
              Like(Tail(pattern), SubSeq(str, k + 1, Len(str)))
       ELSE /\ str # <<>>
            /\ \/ Head(pattern) = "_"
               \/ AsciiLower(Head(pattern)) = AsciiLower(Head(str))
            /\ Like(Tail(pattern), Tail(str))

\* parseTagsFromString: split at the commas, empty pieces dropped
RECURSIVE ParseLoop(_, _, _, _)
ParseLoop(tags, i, current, result) ==
  IF i > Len(tags)
  THEN IF current # <<>> THEN Append(result, current) ELSE result
  ELSE IF tags[i] = ","
       THEN IF current # <<>>
            THEN ParseLoop(tags, i + 1, <<>>, Append(result, current))
            ELSE ParseLoop(tags, i + 1, current, result)
       ELSE ParseLoop(tags, i + 1, Append(current, tags[i]), result)

parseTagsFromString(tags) ==
  IF tags = <<>> THEN <<>> ELSE ParseLoop(tags, 1, <<>>, <<>>)

\* joinTags: the tags with a comma between them
RECURSIVE joinTags(_)
joinTags(tags) ==
  IF Len(tags) = 0 THEN <<>>
  ELSE IF Len(tags) = 1 THEN tags[1]
  ELSE joinTags(SubSeq(tags, 1, Len(tags) - 1)) \o <<",">> \o tags[Len(tags)]

\* ORDER BY date DESC over a set of post ids of table tbl.  The statement
\* fixes no order among rows of one date; SQLite returns them as it walks
\* the table or idx_posts_date, in the order of their rowids, which is the
\* order in which the ids were first inserted.
RECURSIVE OrderByDateDesc(_, _)
OrderByDateDesc(tbl, ids) ==
  IF ids = {} THEN <<>>
  ELSE LET first == CHOOSE i \in ids : \A j \in ids \ {i} :
                      \/ tbl[i].date > tbl[j].date
                      \/ /\ tbl[i].date = tbl[j].date
                         /\ tbl[i].rowid < tbl[j].rowid
       IN <<first>> \o OrderByDateDesc(tbl, ids \ {first})

Wrap(pattern) == <<"%">> \o pattern \o <<"%">>

\* DB.SearchPosts(query): the ids of the posts returned, in order
SearchPosts(tbl, query) ==
  IF query = <<>> THEN <<>>
  ELSE LET searchPattern == Wrap(query)
           hits == {i \in DOMAIN tbl :
                      \/ Like(searchPattern, tbl[i].title)
                      \/ Like(searchPattern, tbl[i].content)
                      \/ Like(searchPattern, tbl[i].category)
                      \/ Like(searchPattern, tbl[i].tags)}
       IN OrderByDateDesc(tbl, hits)

\* The four patterns SearchPostsByTag queries with, in the order of its
\* loop
TagPatterns(tag) ==
  <<tag, tag \o <<",", "%">>, <<"%", ",">> \o tag,
    <<"%", ",">> \o tag \o <<",", "%">>>>

\* The check on the parsed tags of a row (p.Tags stays empty for tags = "")
HasTag(tagsColumn, tag) ==
  LET parsed == IF tagsColumn # <<>> THEN parseTagsFromString(tagsColumn)
                ELSE <<>>
  IN \E k \in 1..Len(parsed) : EqualFold(parsed[k], tag)

\* One round of the loop of SearchPostsByTag, on the table as it is when
\* the query of the round runs: the ids of the rows the pattern fetches
\* whose parsed tags hold the tag
TagQuery(tbl, tag, pattern) ==
  {i \in DOMAIN tbl : Like(Wrap(pattern), tbl[i].tags) /\ HasTag(tbl[i].tags, tag)}

\* DB.GetAllPosts(): SELECT ... FROM posts ORDER BY date DESC
GetAllPosts(tbl) == OrderByDateDesc(tbl, DOMAIN tbl)

Orderings(S) ==
  {f \in [1..Cardinality(S) -> S] : \A a, b \in 1..Cardinality(S) :
                                      a # b => f[a] # f[b]}

SeqsOver(S, n) == UNION {[1..k -> S] : k \in 0..n}
Fields == {"title", "content", "category", "tags"}
Blank == [date |-> 1, title |-> <<>>, content |-> <<>>, category |-> <<>>,
          tags |-> <<>>]

\* A row of the posts table with its rowid
SearchRow(rowid, row) ==
  [rowid |-> rowid, date |-> row.date, title |-> row.title,
   content |-> row.content, category |-> row.category, tags |-> row.tags]

\* A posts table of two rows: p1 with one field set to a text (its tags
\* as SavePost joins them), p2 a post titled "a" of the same or a later
\* date, saved before or after p1; and a query text
InitSearch ==
  /\ now = 0
  /\ reqs = <<>>
  /\ services = <<>>
  /\ pool = 0
  /\ srv = NoServer
  /\ items = <<>>
  /\ heap = <<>>
  /\ logins = <<>>
  /\ ticks = 0
  /\ sessions = <<>>
  /\ usedTokens = {}
  /\ areq = Idle
  /\ \E f \in Fields, t \in SeqsOver(Chars, MaxFieldLen), d \in {1, 2},
        r \in {1, 2} :
       posts = [i \in {"p1", "p2"} |->
                  IF i = "p2"
                  THEN SearchRow(3 - r, [Blank EXCEPT !.date = d,
                                                      !.title = <<"a">>])
                  ELSE IF f = "tags"
                       THEN SearchRow(r, [Blank EXCEPT !.tags = joinTags(<<t>>)])
                       ELSE SearchRow(r, [Blank EXCEPT ![f] = t])]
  /\ comments = <<>>
  /\ nextID = 1
  /\ approveApplied = {}
  /\ resp = Resp("none", 0)
  /\ cfgPass = <<1>>
  /\ auth = NewAuthMiddleware("admin", cfgPass)
  /\ cred = NoCred
  /\ rl = NoLimiter
  /\ rlog = <<>>
  /\ \E q \in SeqsOver(Chars, MaxQueryLen) :
       call = [fn |-> "none", arg |-> q, out |-> <<>>, done |-> FALSE]

\* A call of DB.SearchPosts with the text
CallSearchPosts ==
  /\ call.fn = "none"
  /\ call' = [fn |-> "SearchPosts", arg |-> call.arg,
              out |-> SearchPosts(posts, call.arg), done |-> TRUE]
  /\ UNCHANGED <<appVars, auth, cfgPass, cred, rateVars, concVars>>

searchFrame == <<appVars, auth, cfgPass, cred, rateVars, concVars>>

\* DB.SearchPostsByTag(tag) in round i of its loop, postsMap holding the ids
\* collected in the rounds before, for the call (fn, arg).  Each round takes
\* the connection of the pool for its query and gives it back at
\* rows.Close(), so the table can be written between two rounds.  After the
\* last round the slice is filled by ranging over the map, in an order Go
\* does not fix.
SearchPostsByTag(fn, arg, tag, i, postsMap) ==
  LET found == postsMap \cup TagQuery(posts, tag, TagPatterns(tag)[i])
  IN IF i < Len(TagPatterns(tag))
     THEN call' = [fn |-> fn, arg |-> arg, out |-> <<>>, done |-> FALSE,
                   tag |-> tag, i |-> i + 1, postsMap |-> found]
     ELSE \E order \in Orderings(found) :
            call' = [fn |-> fn, arg |-> arg, out |-> order, done |-> TRUE]

\* A call of DB.SearchPostsByTag with the text, up to the end of its first
\* query
CallSearchPostsByTag ==
  /\ call.fn = "none"
  /\ IF call.arg = <<>>
     THEN call' = [fn |-> "SearchPostsByTag", arg |-> call.arg,
                   out |-> <<>>, done |-> TRUE]
     ELSE SearchPostsByTag("SearchPostsByTag", call.arg, call.arg, 1, {})
  /\ UNCHANGED searchFrame

\* The next round of the tag search in flight
SearchPostsByTagLoop ==
  /\ call.fn \in {"SearchPostsByTag", "HandleSearch"}
  /\ ~call.done
  /\ SearchPostsByTag(call.fn, call.arg, call.tag, call.i, call.postsMap)
  /\ UNCHANGED searchFrame

\* GET /api/search?q=query&tag=tag: the search by tag for a tag (up to the
\* end of its first query), else the full-text search for a query, else
\* every post
HandleSearch(query, tag) ==
  /\ call.fn = "none"
  /\ LET arg == [q |-> query, tag |-> tag]
     IN IF tag # <<>>
        THEN SearchPostsByTag("HandleSearch", arg, tag, 1, {})
        ELSE call' = [fn |-> "HandleSearch", arg |-> arg,
                      out |-> IF query # <<>> THEN SearchPosts(posts, query)
                              ELSE GetAllPosts(posts),
                      done |-> TRUE]
  /\ UNCHANGED searchFrame

\* A tag search has run a query and has another to run
TagSearchInFlight == call.fn # "none" /\ ~call.done

\* The searches, and between two queries of a tag search one admin
\* request that deletes a post
NextSearch ==
  \/ CallSearchPosts
  \/ CallSearchPostsByTag
  \/ SearchPostsByTagLoop
  \/ \E tag \in {<<>>, call.arg} : HandleSearch(call.arg, tag)
  \/ /\ TagSearchInFlight
     /\ resp.h = "none"
     /\ \E id \in DOMAIN posts : Serve(HandleAPIDeletePost(id))

SpecSearch == InitSearch /\ [][NextSearch]_vars

\* t holds q as a substring, letter case ignored
ContainsFold(t, q) ==
  \E k \in 0..(Len(t) - Len(q)) : EqualFold(SubSeq(t, k + 1, k + Len(q)), q)

\* The post carries a tag equal to tag, letter case ignored
CarriesTag(post, tag) ==
  LET parsed == parseTagsFromString(post.tags)
  IN \E k \in 1..Len(parsed) : EqualFold(parsed[k], tag)

Range(f) == {f[k] : k \in DOMAIN f}

\* C8: SearchPostsByTag(tag), while no request writes the posts table,
\* returns, each once, exactly the posts that carry a tag equal to tag up
\* to letter case, and nothing for the empty tag.
C8_TagSearchExact ==
  (call.fn = "SearchPostsByTag" /\ call.done /\ resp.h = "none") =>
    /\ \A a, b \in 1..Len(call.out) : a # b => call.out[a] # call.out[b]
    /\ Range(call.out) =
         IF call.arg = <<>> THEN {}
         ELSE {i \in DOMAIN posts : CarriesTag(posts[i], call.arg)}

\* C9: SearchPosts(q) for a non-empty q returns exactly the posts with q,
\* up to letter case, inside the title, content, category or tag text,
\* latest date first.
C9_SearchIsSubstring ==
  (call.fn = "SearchPosts" /\ call.done /\ call.arg # <<>>) =>
    /\ Range(call.out) =
         {i \in DOMAIN posts :
            \/ ContainsFold(posts[i].title, call.arg)
            \/ ContainsFold(posts[i].content, call.arg)
            \/ ContainsFold(posts[i].category, call.arg)
            \/ ContainsFold(posts[i].tags, call.arg)}
    /\ \A a, b \in 1..Len(call.out) :
         a < b => posts[call.out[a]].date >= posts[call.out[b]].date

\* ------------------------------------------------------------------------
\* The credential check on its own
\* ------------------------------------------------------------------------
\* NewAuthMiddleware(adminUser, adminPass) for a configured pair
InitCreds ==
  /\ now = 0
  /\ reqs = <<>>
  /\ services = <<>>
  /\ pool = 0
  /\ srv = NoServer
  /\ items = <<>>
  /\ heap = <<>>
  /\ logins = <<>>
  /\ ticks = 0
  /\ sessions = <<>>
  /\ usedTokens = {}
  /\ areq = Idle
  /\ posts = <<>>
  /\ comments = <<>>
  /\ nextID = 1
  /\ approveApplied = {}
  /\ resp = Resp("none", 0)
  /\ cfgPass \in AdminPasswords
  /\ \E u \in Users : auth = NewAuthMiddleware(u, cfgPass)
  /\ cred = NoCred
  /\ rl = NoLimiter
  /\ rlog = <<>>
  /\ call = NoCall

CallValidateCredentials(username, password) ==
  /\ ~cred.called
  /\ cred' = [username |-> username, password |-> password,
              result |-> ValidateCredentials(auth, username, password),
              called |-> TRUE]
  /\ UNCHANGED <<appVars, auth, cfgPass, rateVars, call, concVars>>

NextCreds ==
  \E u \in Users, pw \in Passwords : CallValidateCredentials(u, pw)

SpecCreds == InitCreds /\ [][NextCreds]_vars

\* C10: ValidateCredentials returns true exactly for the configured user
\* name together with the configured password.
C10_ValidateIffConfigured ==
  cred.called =>
    (cred.result <=> (cred.username = auth.adminUser /\ cred.password = cfgPass))

\* ------------------------------------------------------------------------
\* Login
\* ------------------------------------------------------------------------
\* Logins, logouts and the sweep alone
NextLogin ==
  \/ \E d \in {1, SessionTTL} : Tick(d)
  \/ \E u \in Users, pw \in LoginPasswords,
        t \in generateSessionToken(usedTokens) : HandleLogin(u, pw, t)
  \/ \E k \in Tokens : CreateSession(k)
  \/ \E c \in Cookies \cup {EmptyToken} : HandleLogout(c)
  \/ cleanupSessions

SpecLogin == InitAuth /\ [][NextLogin]_vars

\* C11: a login whose credentials fail ValidateCredentials leaves the
\* session store as it is, sets no session_token cookie and leaves no
\* session waiting to be stored; a login whose credentials pass notes an
\* expiry 24 hours after the clock value it reads, and when it completes
\* it adds exactly one token the store did not hold, with that expiry,
\* changes no other entry and hands that token out as cookie; no other
\* step adds a token to the store.
C11_FailedLoginNoSession ==
  [][/\ \A u \in Users, pw \in LoginPasswords :
          (/\ ~ValidateCredentials(auth, u, pw)
           /\ \E t \in generateSessionToken(usedTokens) :
                HandleLogin(u, pw, t)) =>
            /\ sessions' = sessions
            /\ logins' = logins
            /\ resp'.cookie = NoCookie
     /\ Len(logins') > Len(logins) =>
          /\ logins'[Len(logins')].expiry = now + SessionTTL
          /\ sessions' = sessions
     /\ Len(logins') < Len(logins) =>
          \E k \in 1..Len(logins) :
            \E t \in {logins[k].token} \ DOMAIN sessions :
              /\ sessions' = Put(sessions, t, logins[k].expiry)
              /\ resp' = [h |-> "HandleLogin", status |-> StatusFound,
                          cookie |-> t]
     /\ ~(DOMAIN sessions' \subseteq DOMAIN sessions) =>
          Len(logins') < Len(logins)]_vars

\* ------------------------------------------------------------------------
\* RequireAuth run by concurrent requests
\* ------------------------------------------------------------------------
Procs == 1..MaxProcs
IdleReq == [pc |-> "idle", cookie |-> NoCookie, t |-> 0, look |-> NoLook]
extFrame == <<now, ticks, usedTokens, areq, dbVars, approveApplied, auth,
              cfgPass, cred, rateVars, call, services, pool, lifeVars>>

\* Mutant: the new expiry computed from the time of the check
ExtendedExpiry_atCheck(tNow, tCheck) == tCheck + SessionTTL

\* time.Now().Add(24 * time.Hour), evaluated while the write lock is held
ExtendedExpiry(tNow, tCheck) == tNow + SessionTTL

\* Request p: the cookie is read and the session map looked up under the
\* read lock
LookupSession(p, cookie) ==
  /\ reqs[p].pc = "idle"
  /\ IF cookie = NoCookie
     THEN /\ resp' = [h |-> "RequireAuth", status |-> StatusFound,
                      cookie |-> cookie]
          /\ UNCHANGED reqs
     ELSE /\ reqs' = [reqs EXCEPT ![p] = [pc |-> "looked",
                                          cookie |-> cookie, t |-> 0,
                                          look |-> Lookup(sessions, cookie)]]
          /\ UNCHANGED resp
  /\ UNCHANGED <<sessions, extFrame>>

\* Request p: the expiry test, after the read lock is released, on the
\* values read; t becomes the time of the test
CheckSession(p) ==
  /\ reqs[p].pc = "looked"
  /\ IF Rejected(reqs[p].look, now)
     THEN /\ resp' = [h |-> "RequireAuth", status |-> StatusFound,
                      cookie |-> reqs[p].cookie]
          /\ reqs' = [reqs EXCEPT ![p] = IdleReq]
     ELSE /\ reqs' = [reqs EXCEPT ![p].pc = "checked", ![p].t = now]
          /\ UNCHANGED resp
  /\ UNCHANGED <<sessions, extFrame>>

\* Request p: the extension under the write lock
ExtendChecked(p) ==
  /\ reqs[p].pc = "checked"
  /\ sessions' = Put(sessions, reqs[p].cookie,
                     ExtendedExpiry(now, reqs[p].t))
  /\ reqs' = [reqs EXCEPT ![p].pc = "extended"]
  /\ UNCHANGED <<resp, extFrame>>

\* Request p: next(w, r)
CallNext(p) ==
  /\ reqs[p].pc = "extended"
  /\ reqs' = [reqs EXCEPT ![p] = IdleReq]
  /\ resp' = Resp("next", StatusOK)
  /\ UNCHANGED <<sessions, extFrame>>

\* One session, created by a login at time 0
InitExt ==
  /\ now = 0
  /\ ticks = 0
  /\ sessions = (1 :> SessionTTL)
  /\ usedTokens = {1}
  /\ areq = Idle
  /\ posts = <<>>
  /\ comments = <<>>
  /\ nextID = 1
  /\ approveApplied = {}
  /\ resp = Resp("none", 0)
  /\ cfgPass = <<1>>
  /\ auth = NewAuthMiddleware("admin", cfgPass)
  /\ cred = NoCred
  /\ rl = NoLimiter
  /\ rlog = <<>>
  /\ call = NoCall
  /\ reqs = [p \in Procs |-> IdleReq]
  /\ services = <<>>
  /\ pool = 0
  /\ srv = NoServer
  /\ items = <<>>
  /\ heap = <<>>
  /\ logins = <<>>

NextExt ==
  \/ \E d \in {1, SessionTTL} : Tick(d)
  \/ \E p \in Procs, c \in {1, NoCookie} : LookupSession(p, c)
  \/ \E p \in Procs : CheckSession(p)
  \/ \E p \in Procs : ExtendChecked(p)
  \/ \E p \in Procs : CallNext(p)
  \/ HandleLogout(1)
  \/ cleanupSessions

SpecExt == InitExt /\ [][NextExt]_vars

\* C12: the extension step of a request admitted by RequireAuth stores the
\* time of that step plus 24 hours for its token, which is no earlier than
\* 24 hours after the check; and in no step, whatever the interleaving of
\* the requests, does the stored expiry of a token that stays in the store
\* decrease.
C12_ExpiryNeverDecreases ==
  [][/\ \A p \in Procs :
          (reqs[p].pc = "checked" /\ reqs'[p].pc = "extended")
            => /\ sessions'[reqs[p].cookie] = now + SessionTTL
               /\ sessions'[reqs[p].cookie] >= reqs[p].t + SessionTTL
     /\ \A k \in DOMAIN sessions \cap DOMAIN sessions' :
          sessions'[k] >= sessions[k]]_vars

\* C12 witness: two requests with the same token, checked at different
\* times, have both extended the session
C12_Witness ==
  \E p, q \in Procs :
    /\ reqs[p].pc = "extended" /\ reqs[q].pc = "extended"
    /\ reqs[p].cookie = reqs[q].cookie
    /\ reqs[p].t < reqs[q].t
    /\ sessions[reqs[p].cookie] = now + SessionTTL

\* ------------------------------------------------------------------------
\* Comment submission
\* ------------------------------------------------------------------------
\* The numbers of characters a string of b bytes can hold, fewest and most
RuneCounts(b) == IF b = 0 THEN {0} ELSE {(b + 3) \div 4, b}

\* Comment submission and moderation alone
NextComment ==
  \/ now < MaxClock /\ Tick(1)
  \/ \E p \in PostIds, f \in CommentForms :
        HandlePostComment(p, f.name, f.email, f.len)
  \/ \E k \in 1..MaxComments : HandlePostCommentSave(k)
  \/ \E p \in PostIds : Serve(HandleGetComments(p))
  \/ Serve(HandleGetPendingComments)
  \/ \E i \in 1..MaxComments : Serve(HandleApproveComment(i))
  \/ \E i \in 1..MaxComments : Serve(HandleDeleteComment(i))

SpecComment == Init /\ [][NextComment]_vars

\* C13: a submission whose trimmed author name, author email or content is
\* empty, or whose content has more than 2000 characters, is answered with
\* status 400, and the step leaves the comment table, the next comment id
\* and the submissions in flight as they were; every row that is stored
\* carries a name, an email and a content of 1 to 2000 bytes.
C13_InvalidCommentRejected ==
  [][/\ \A p \in PostIds, f \in CommentForms :
          HandlePostComment(p, f.name, f.email, f.len) =>
            \A chars \in RuneCounts(f.len) :
              (f.name = "" \/ f.email = "" \/ chars = 0
                 \/ chars > MaxContentLen)
                => /\ resp' = Resp("HandlePostComment", StatusBadRequest)
                   /\ comments' = comments
                   /\ nextID' = nextID
                   /\ reqs' = reqs
     /\ nextID' # nextID =>
          /\ comments'[nextID].author_name # ""
          /\ comments'[nextID].author_email # ""
          /\ comments'[nextID].content \in 1..MaxContentLen]_vars

\* C13 witness: with a comment stored, a submission has been answered 400
C13_Witness ==
  /\ resp = Resp("HandlePostComment", StatusBadRequest)
  /\ comments # <<>>

\* ------------------------------------------------------------------------
\* Response status of the handlers when the datastore fails
\* ------------------------------------------------------------------------
\* A request as far as the status depends on it: dbErr, the datastore
\* operation of the handler returns an error; found, the row asked for
\* exists; badInput, the body, form or id of the request is rejected before
\* the datastore is reached; tagsErr, the GetAllTags call that
\* HandleSearchPage makes after its search returns an error.  Templates and
\* feeds are taken to render.
HandlerInputs == [dbErr : BOOLEAN, found : BOOLEAN, badInput : BOOLEAN,
                  tagsErr : BOOLEAN]

HandleAPIServicesStatus(in) ==
  IF in.dbErr THEN StatusInternalServerError ELSE StatusOK

HandleAPIPostsStatus(in) ==
  IF in.dbErr THEN StatusInternalServerError ELSE StatusOK

HandleAPIGetPostStatus(in) ==
  IF in.dbErr THEN StatusInternalServerError
  ELSE IF ~in.found THEN StatusNotFound
  ELSE StatusOK

\* On a datastore error the handlers below encode {"success": false} without
\* a WriteHeader call, which sends 200
HandleAPISavePostStatus(in) ==
  IF in.badInput THEN StatusBadRequest ELSE StatusOK

HandleAPIDeletePostStatus(in) == StatusOK

\* services, _ := app.DB.GetAllServices(); posts, _ := app.DB.GetAllPosts()
HandleHomeStatus(in) == StatusOK

HandleServicesStatus(in) == StatusOK

HandleBlogStatus(in) == StatusOK

HandleAdminStatus(in) == StatusOK

HandleBlogPostStatus(in) ==
  IF in.dbErr \/ ~in.found THEN StatusNotFound ELSE StatusOK

HandleSearchStatus(in) ==
  IF in.dbErr THEN StatusInternalServerError ELSE StatusOK

\* The search (by tag, by query, or GetAllPosts) answers 500 on an error;
\* allTags, _ := app.DB.GetAllTags() discards its error
HandleSearchPageStatus(in) ==
  IF in.dbErr THEN StatusInternalServerError ELSE StatusOK

HandleAPITagsStatus(in) ==
  IF in.dbErr THEN StatusInternalServerError ELSE StatusOK

HandleRSSStatus(in) ==
  IF in.dbErr THEN StatusInternalServerError ELSE StatusOK

HandleGetCommentsStatus(in) ==
  IF in.dbErr THEN StatusInternalServerError ELSE StatusOK

HandlePostCommentStatus(in) ==
  IF in.badInput THEN StatusBadRequest
  ELSE IF in.dbErr THEN StatusInternalServerError
  ELSE StatusOK

HandleGetPendingCommentsStatus(in) ==
  IF in.dbErr THEN StatusInternalServerError ELSE StatusOK

HandleApproveCommentStatus(in) ==
  IF in.badInput THEN StatusBadRequest
  ELSE IF in.dbErr THEN StatusInternalServerError
  ELSE StatusOK

HandleDeleteCommentStatus(in) ==
  IF in.badInput THEN StatusBadRequest
  ELSE IF in.dbErr THEN StatusInternalServerError
  ELSE StatusOK

DbHandlers ==
  {"HandleAPIServices", "HandleAPIPosts", "HandleAPIGetPost",
   "HandleAPISavePost", "HandleAPIDeletePost", "HandleHome",
   "HandleServices", "HandleBlog", "HandleAdmin", "HandleBlogPost",
   "HandleSearch", "HandleSearchPage", "HandleAPITags", "HandleRSS",
   "HandleGetComments", "HandlePostComment", "HandleGetPendingComments",
   "HandleApproveComment", "HandleDeleteComment"}

\* Handlers that look at the request before they call the datastore
ValidatingHandlers ==
  {"HandleAPISavePost", "HandlePostComment", "HandleApproveComment",
   "HandleDeleteComment"}

HandlerStatus(h, in) ==
  CASE h = "HandleAPIServices" -> HandleAPIServicesStatus(in)
    [] h = "HandleAPIPosts" -> HandleAPIPostsStatus(in)
    [] h = "HandleAPIGetPost" -> HandleAPIGetPostStatus(in)
    [] h = "HandleAPISavePost" -> HandleAPISavePostStatus(in)
    [] h = "HandleAPIDeletePost" -> HandleAPIDeletePostStatus(in)
    [] h = "HandleHome" -> HandleHomeStatus(in)
    [] h = "HandleServices" -> HandleServicesStatus(in)
    [] h = "HandleBlog" -> HandleBlogStatus(in)
    [] h = "HandleAdmin" -> HandleAdminStatus(in)
    [] h = "HandleBlogPost" -> HandleBlogPostStatus(in)
    [] h = "HandleSearch" -> HandleSearchStatus(in)
    [] h = "HandleSearchPage" -> HandleSearchPageStatus(in)
    [] h = "HandleAPITags" -> HandleAPITagsStatus(in)
    [] h = "HandleRSS" -> HandleRSSStatus(in)
    [] h = "HandleGetComments" -> HandleGetCommentsStatus(in)
    [] h = "HandlePostComment" -> HandlePostCommentStatus(in)
    [] h = "HandleGetPendingComments" -> HandleGetPendingCommentsStatus(in)
    [] h = "HandleApproveComment" -> HandleApproveCommentStatus(in)
    [] h = "HandleDeleteComment" -> HandleDeleteCommentStatus(in)

InitErr ==
  /\ now = 0
  /\ reqs = <<>>
  /\ services = <<>>
  /\ pool = 0
  /\ srv = NoServer
  /\ items = <<>>
  /\ heap = <<>>
  /\ logins = <<>>
  /\ ticks = 0
  /\ sessions = <<>>
  /\ usedTokens = {}
  /\ areq = Idle
  /\ posts = <<>>
  /\ comments = <<>>
  /\ nextID = 1
  /\ approveApplied = {}
  /\ resp = Resp("none", 0)
  /\ cfgPass = <<1>>
  /\ auth = NewAuthMiddleware("admin", cfgPass)
  /\ cred = NoCred
  /\ rl = NoLimiter
  /\ rlog = <<>>
  /\ \E h \in DbHandlers, in \in HandlerInputs :
       call = [fn |-> h, arg |-> in, out |-> 0, done |-> FALSE]

ServeRequest ==
  /\ ~call.done
  /\ call' = [call EXCEPT !.out = HandlerStatus(call.fn, call.arg),
                          !.done = TRUE]
  /\ UNCHANGED <<appVars, auth, cfgPass, cred, rateVars, concVars>>

NextErr == ServeRequest

SpecErr == InitErr /\ [][NextErr]_vars

\* C14: a request whose handler reaches a datastore operation and gets an
\* error from it is answered with status 500.
C14_DatastoreError500 ==
  (/\ call.done
   /\ \/ call.arg.dbErr
      \/ call.fn = "HandleSearchPage" /\ call.arg.tagsErr
   /\ ~(call.fn \in ValidatingHandlers /\ call.arg.badInput))
    => call.out = StatusInternalServerError

\* ------------------------------------------------------------------------
\* The connection pool, the statements run on it, and the first start
\* ------------------------------------------------------------------------
ServiceNames == {"s1", "s2"}
Vals == {1, 2}
MainProc == 0
HttpProc == 1
IdleProc == [pc |-> "idle", ret |-> "idle", i |-> 0, key |-> "", val |-> 0,
             exists |-> FALSE]

\* SELECT EXISTS(SELECT 1 FROM services WHERE name = ?)
ServiceExists(tbl, name) == \E k \in DOMAIN tbl : tbl[k].name = name

\* UPDATE services SET ... WHERE name = ?
UpdateService(tbl, name, v) ==
  [k \in DOMAIN tbl |-> IF tbl[k].name = name
                        THEN [tbl[k] EXCEPT !.val = v] ELSE tbl[k]]

\* INSERT INTO services (name, ...): the table has no unique index on name
InsertService(tbl, name, v) == Append(tbl, [name |-> name, val |-> v])

\* The statement process p is about to run, by its position
AtStatement(p) ==
  \/ reqs[p].pc \in {"SavePost", "DeletePost", "SaveService.exists",
                    "SaveService.write"}
  \/ reqs[p].pc = "posts" /\ reqs[p].i <= Len(call.arg.posts)
  \/ reqs[p].pc = "services" /\ reqs[p].i <= Len(call.arg.services)

\* db.conn.Exec / db.conn.QueryRow of process p: database/sql hands out a
\* connection when fewer than MaxOpenConns are in use, and the caller waits
\* otherwise; the statement runs and the connection goes back to the pool.
ExecStatement(p) ==
  /\ AtStatement(p)
  /\ pool < MaxOpenConns
  /\ LET r == reqs[p]
     IN CASE r.pc = "SavePost" ->
               /\ posts' = SavePost(posts, r.key, r.val)
               /\ reqs' = [reqs EXCEPT ![p] = IdleProc]
               /\ UNCHANGED services
          [] r.pc = "DeletePost" ->
               /\ posts' = DeletePost(posts, r.key)
               /\ reqs' = [reqs EXCEPT ![p] = IdleProc]
               /\ UNCHANGED services
          [] r.pc = "posts" ->
               /\ posts' = SavePost(posts, call.arg.posts[r.i], 1)
               /\ reqs' = [reqs EXCEPT ![p].i = r.i + 1]
               /\ UNCHANGED services
          [] r.pc = "services" ->
               /\ reqs' = [reqs EXCEPT ![p] =
                             [r EXCEPT !.pc = "SaveService.write",
                                       !.ret = "services",
                                       !.key = call.arg.services[r.i],
                                       !.val = 1,
                                       !.exists = ServiceExists(services,
                                                    call.arg.services[r.i])]]
               /\ UNCHANGED <<posts, services>>
          [] r.pc = "SaveService.exists" ->
               /\ reqs' = [reqs EXCEPT ![p] =
                             [r EXCEPT !.pc = "SaveService.write",
                                       !.exists = ServiceExists(services,
                                                                r.key)]]
               /\ UNCHANGED <<posts, services>>
          [] r.pc = "SaveService.write" ->
               /\ services' = IF r.exists
                              THEN UpdateService(services, r.key, r.val)
                              ELSE InsertService(services, r.key, r.val)
               /\ reqs' = IF r.ret = "services"
                          THEN [reqs EXCEPT ![p] =
                                  [r EXCEPT !.pc = "services",
                                            !.i = r.i + 1]]
                          ELSE [reqs EXCEPT ![p] = IdleProc]
               /\ UNCHANGED posts
  /\ UNCHANGED <<now, ticks, sessions, usedTokens, areq, comments, nextID,
                 approveApplied, resp, auth, cfgPass, cred, rateVars, call,
                 pool, lifeVars>>

migFrame == <<now, ticks, sessions, usedTokens, areq, dbVars, approveApplied,
              resp, auth, cfgPass, cred, rateVars, services, lifeVars>>

\* main: if shouldMigrate(dbPath); call.out tells whether the marker exists
StartMain ==
  /\ reqs[MainProc].pc = "start"
  /\ reqs' = [reqs EXCEPT ![MainProc].pc =
                IF call.out THEN "serving" ELSE "begin"]
  /\ UNCHANGED <<migFrame, call, pool>>

\* tx, err := db.conn.Begin(): the transaction keeps its connection
Begin ==
  /\ reqs[MainProc].pc = "begin"
  /\ pool < MaxOpenConns
  /\ pool' = pool + 1
  /\ reqs' = [reqs EXCEPT ![MainProc].pc = "posts", ![MainProc].i = 1]
  /\ UNCHANGED <<migFrame, call>>

\* The end of the loop over the posts, then of the loop over the services
EndLoop ==
  /\ \/ /\ reqs[MainProc].pc = "posts"
        /\ reqs[MainProc].i > Len(call.arg.posts)
        /\ reqs' = [reqs EXCEPT ![MainProc].pc = "services",
                                ![MainProc].i = 1]
     \/ /\ reqs[MainProc].pc = "services"
        /\ reqs[MainProc].i > Len(call.arg.services)
        /\ reqs' = [reqs EXCEPT ![MainProc].pc = "commit"]
  /\ UNCHANGED <<migFrame, call, pool>>

\* tx.Commit() and the return of MigrateFromYAML without error
Commit ==
  /\ reqs[MainProc].pc = "commit"
  /\ pool' = pool - 1
  /\ reqs' = [reqs EXCEPT ![MainProc].pc = "marker"]
  /\ call' = [call EXCEPT !.done = TRUE]
  /\ UNCHANGED migFrame

\* os.WriteFile(markerPath, ...), its error ignored: the marker exists
\* afterwards (written) or does not, and the server starts either way
WriteMarker ==
  /\ reqs[MainProc].pc = "marker"
  /\ \E written \in BOOLEAN : call' = [call EXCEPT !.out = written]
  /\ reqs' = [reqs EXCEPT ![MainProc].pc = "serving"]
  /\ UNCHANGED <<migFrame, pool>>

\* An admitted POST /api/posts once the server runs
SavePostRequest(id, v) ==
  /\ reqs[MainProc].pc = "serving"
  /\ reqs[HttpProc].pc = "idle"
  /\ reqs' = [reqs EXCEPT ![HttpProc] =
                [IdleProc EXCEPT !.pc = "SavePost", !.key = id, !.val = v]]
  /\ UNCHANGED <<migFrame, call, pool>>

YamlLists(S) == UNION {[1..n -> S] : n \in 0..MaxYaml}

InitMigrate ==
  /\ now = 0
  /\ ticks = 0
  /\ sessions = <<>>
  /\ usedTokens = {}
  /\ areq = Idle
  /\ posts = <<>>
  /\ comments = <<>>
  /\ nextID = 1
  /\ approveApplied = {}
  /\ resp = Resp("none", 0)
  /\ cfgPass = <<1>>
  /\ auth = NewAuthMiddleware("admin", cfgPass)
  /\ cred = NoCred
  /\ rl = NoLimiter
  /\ rlog = <<>>
  /\ services = <<>>
  /\ pool = 0
  /\ srv = NoServer
  /\ items = <<>>
  /\ heap = <<>>
  /\ logins = <<>>
  /\ reqs = (MainProc :> [IdleProc EXCEPT !.pc = "start"])
              @@ (HttpProc :> IdleProc)
  /\ \E ps \in YamlLists(PostIds), ss \in YamlLists(ServiceNames),
        marker \in BOOLEAN :
       call = [fn |-> "MigrateFromYAML",
               arg |-> [posts |-> ps, services |-> ss],
               out |-> marker, done |-> FALSE]

MainStep ==
  \/ StartMain
  \/ Begin
  \/ ExecStatement(MainProc)
  \/ EndLoop
  \/ Commit
  \/ WriteMarker

NextMigrate ==
  \/ MainStep
  \/ \E id \in PostIds, v \in Vals : SavePostRequest(id, v)
  \/ ExecStatement(HttpProc)

SpecMigrate == InitMigrate /\ [][NextMigrate]_vars /\ WF_vars(MainStep)

\* C15: on a first start (no marker) with at least one post or service in
\* the YAML input, MigrateFromYAML eventually returns without error with
\* every post and every service of the input stored.
C15_MigrationTerminates ==
  (/\ ~call.out
   /\ (call.arg.posts # <<>> \/ call.arg.services # <<>>))
    => <>(/\ call.done
          /\ \A k \in DOMAIN call.arg.posts :
               call.arg.posts[k] \in DOMAIN posts
          /\ \A k \in DOMAIN call.arg.services :
               ServiceExists(services, call.arg.services[k]))

\* ------------------------------------------------------------------------
\* Posts saved, read back and deleted
\* ------------------------------------------------------------------------
TagChars == {"a", ","}
TagTexts == UNION {[1..n -> TagChars] : n \in 0..1}
TagLists == UNION {[1..n -> TagTexts] : n \in 0..MaxTags}
Titles == {<<"a">>, <<"A">>}
NoPost == [id |-> "", title |-> <<>>, tags |-> <<>>]

\* The row SavePost writes for a post: its tags joined with commas
PostRow(post) ==
  [Blank EXCEPT !.title = post.title, !.tags = joinTags(post.tags)]

\* GetPostByID: no row gives (nil, nil); otherwise the post of the row, its
\* tags split at the commas
GetPostByID(tbl, id) ==
  IF id \notin DOMAIN tbl THEN NoPost
  ELSE [id |-> id, title |-> tbl[id].title,
        tags |-> IF tbl[id].tags = <<>> THEN <<>>
                 ELSE parseTagsFromString(tbl[id].tags)]

\* call.arg keeps, for every id, the post of the latest SavePost that no
\* DeletePost has followed
InitPosts ==
  /\ now = 0
  /\ reqs = <<>>
  /\ services = <<>>
  /\ pool = 0
  /\ srv = NoServer
  /\ items = <<>>
  /\ heap = <<>>
  /\ logins = <<>>
  /\ ticks = 0
  /\ sessions = <<>>
  /\ usedTokens = {}
  /\ areq = Idle
  /\ posts = <<>>
  /\ comments = <<>>
  /\ nextID = 1
  /\ approveApplied = {}
  /\ resp = Resp("none", 0)
  /\ cfgPass = <<1>>
  /\ auth = NewAuthMiddleware("admin", cfgPass)
  /\ cred = NoCred
  /\ rl = NoLimiter
  /\ rlog = <<>>
  /\ call = [fn |-> "none", arg |-> <<>>, out |-> <<>>, done |-> FALSE]

CallSavePost(post) ==
  /\ posts' = SavePost(posts, post.id, PostRow(post))
  /\ call' = [fn |-> "SavePost", arg |-> Put(call.arg, post.id, post),
              out |-> <<>>, done |-> TRUE]
  /\ UNCHANGED <<now, ticks, sessions, usedTokens, areq, comments, nextID,
                 approveApplied, resp, auth, cfgPass, cred, rateVars,
                 concVars>>

CallDeletePost(id) ==
  /\ posts' = DeletePost(posts, id)
  /\ call' = [fn |-> "DeletePost", arg |-> Remove(call.arg, id),
              out |-> <<>>, done |-> TRUE]
  /\ UNCHANGED <<now, ticks, sessions, usedTokens, areq, comments, nextID,
                 approveApplied, resp, auth, cfgPass, cred, rateVars,
                 concVars>>

NextPosts ==
  \/ \E id \in PostIds, title \in Titles, tags \in TagLists :
        CallSavePost([id |-> id, title |-> title, tags |-> tags])
  \/ \E id \in PostIds : CallDeletePost(id)

SpecPosts == InitPosts /\ [][NextPosts]_vars

\* C16: the posts table holds one row per id at most; for an id saved and
\* not deleted since, GetPostByID returns the post of the latest SavePost;
\* for an id never saved or deleted since, GetPostByID returns no post.
C16_PostIdUniqueKey ==
  \A id \in PostIds :
    IF id \in DOMAIN call.arg
    THEN GetPostByID(posts, id) = call.arg[id]
    ELSE GetPostByID(posts, id) = NoPost

\* ------------------------------------------------------------------------
\* SaveService called by concurrent requests
\* ------------------------------------------------------------------------
\* Process p calls DB.SaveService for the service name with the values v
CallSaveService(p, name, v) ==
  /\ reqs[p].pc = "idle"
  /\ reqs' = [reqs EXCEPT ![p] =
                [IdleProc EXCEPT !.pc = "SaveService.exists",
                                 !.key = name, !.val = v]]
  /\ UNCHANGED <<migFrame, call, pool>>

InitSvc ==
  /\ now = 0
  /\ ticks = 0
  /\ sessions = <<>>
  /\ usedTokens = {}
  /\ areq = Idle
  /\ posts = <<>>
  /\ comments = <<>>
  /\ nextID = 1
  /\ approveApplied = {}
  /\ resp = Resp("none", 0)
  /\ cfgPass = <<1>>
  /\ auth = NewAuthMiddleware("admin", cfgPass)
  /\ cred = NoCred
  /\ rl = NoLimiter
  /\ rlog = <<>>
  /\ call = [fn |-> "SaveService", arg |-> [posts |-> <<>>,
                                             services |-> <<>>],
             out |-> TRUE, done |-> FALSE]
  /\ services = <<>>
  /\ pool = 0
  /\ srv = NoServer
  /\ items = <<>>
  /\ heap = <<>>
  /\ logins = <<>>
  /\ reqs = [p \in Procs |-> IdleProc]

NextSvc ==
  \/ \E p \in Procs, name \in ServiceNames, v \in Vals :
        CallSaveService(p, name, v)
  \/ \E p \in Procs : ExecStatement(p)

SpecSvc == InitSvc /\ [][NextSvc]_vars

\* C17: the services table holds at most one row per name, whatever the
\* interleaving of the SaveService calls.
C17_ServiceNameUnique ==
  \A j, k \in DOMAIN services :
    services[j].name = services[k].name => j = k

\* The ids in the public listing of post p
Listed(rows, p) ==
  {GetCommentsByPostID(rows, p)[k].id :
     k \in 1..Len(GetCommentsByPostID(rows, p))}

\* C18: a stored comment starts pending; ApproveComment on a stored comment
\* puts it in the public listing of its post and takes it out of the pending
\* listing; no step returns an approved comment to pending; approving twice
\* is approving once; a deleted comment is in neither listing and its id
\* never comes back.
C18_ModerationLifecycle ==
  [][/\ nextID' # nextID =>
          /\ nextID \in GetPendingComments(comments')
          /\ \A p \in PostIds : nextID \notin Listed(comments', p)
     /\ resp'.h = "approve" =>
          \A i \in DOMAIN comments :
            HandleApproveComment(i) =>
              /\ i \in Listed(comments', comments[i].post_id)
              /\ i \notin GetPendingComments(comments')
              /\ ApproveComment(comments', i) = comments'
     /\ \A i \in DOMAIN comments \cap DOMAIN comments' :
          comments[i].approved => comments'[i].approved
     /\ \A i \in 1..(nextID - 1) :
          i \notin DOMAIN comments =>
            /\ i \notin DOMAIN comments'
            /\ i \notin GetPendingComments(comments')
            /\ \A p \in PostIds : i \notin Listed(comments', p)
     /\ resp'.h = "deleteComment" =>
          \A i \in DOMAIN comments :
            HandleDeleteComment(i) => i \notin DOMAIN comments']_vars

\* C18 witness: one comment approved and listed, another deleted
C18_Witness ==
  /\ \E i \in DOMAIN comments :
       /\ comments[i].approved
       /\ i \in Listed(comments, comments[i].post_id)
       /\ i \in approveApplied
  /\ \E j \in 1..(nextID - 1) : j \notin DOMAIN comments

\* ------------------------------------------------------------------------
\* getIP on requests with their header lines
\* ------------------------------------------------------------------------
HeaderLines(S) == UNION {[1..n -> S] : n \in 0..MaxHeaderVals}

\* http.Header.Get: the first value of the header, "" when it has none
HeaderGet(vals) == IF vals = <<>> THEN "" ELSE vals[1]

RawRequests ==
  [xff : HeaderLines({"", "1.1.1.1"}), xri : HeaderLines({"", "2.2.2.2"}),
   remoteAddr : {"10.0.0.1:1", "10.0.0.2:1"}]

InitIP ==
  /\ now = 0
  /\ reqs = <<>>
  /\ services = <<>>
  /\ pool = 0
  /\ srv = NoServer
  /\ items = <<>>
  /\ heap = <<>>
  /\ logins = <<>>
  /\ ticks = 0
  /\ sessions = <<>>
  /\ usedTokens = {}
  /\ areq = Idle
  /\ posts = <<>>
  /\ comments = <<>>
  /\ nextID = 1
  /\ approveApplied = {}
  /\ resp = Resp("none", 0)
  /\ cfgPass = <<1>>
  /\ auth = NewAuthMiddleware("admin", cfgPass)
  /\ cred = NoCred
  /\ rl = NoLimiter
  /\ rlog = <<>>
  /\ \E r \in RawRequests :
       call = [fn |-> "none", arg |-> r, out |-> "", done |-> FALSE]

CallGetIP ==
  /\ ~call.done
  /\ call' = [fn |-> "getIP", arg |-> call.arg,
              out |-> getIP([forwarded |-> HeaderGet(call.arg.xff),
                             realIP |-> HeaderGet(call.arg.xri),
                             remoteAddr |-> call.arg.remoteAddr]),
              done |-> TRUE]
  /\ UNCHANGED <<appVars, auth, cfgPass, cred, rateVars, concVars>>

NextIP == CallGetIP

SpecIP == InitIP /\ [][NextIP]_vars

\* C20: getIP returns the X-Forwarded-For value when it is not empty,
\* otherwise the X-Real-IP value when it is not empty, otherwise RemoteAddr.
C20_GetIPPrecedence ==
  call.done =>
    LET xff == HeaderGet(call.arg.xff)
        xri == HeaderGet(call.arg.xri)
    IN /\ xff # "" => call.out = xff
       /\ (xff = "" /\ xri # "") => call.out = xri
       /\ (xff = "" /\ xri = "") => call.out = call.arg.remoteAddr

\* C20 witness: both headers present, the X-Forwarded-For value returned
C20_Witness ==
  /\ call.done
  /\ HeaderGet(call.arg.xff) = "1.1.1.1"
  /\ HeaderGet(call.arg.xri) = "2.2.2.2"
  /\ call.out = "1.1.1.1"

\* ------------------------------------------------------------------------
\* Shutdown of main: the signal, srv.Shutdown(ctx) and the deferred
\* database.Close()
\* ------------------------------------------------------------------------
\* A connection goroutine of the HTTP server: idle, or running a handler
\* that has made ops datastore calls, late of them on a closed handle
IdleConn == [pc |-> "idle", ops |-> 0, late |-> 0]

shutFrame == <<ticks, sessions, usedTokens, areq, dbVars, approveApplied,
               resp, auth, cfgPass, cred, rateVars, call, services, pool,
               items, heap, logins>>

\* main up to <-stop: the datastore is open and the server listens
InitShutdown ==
  /\ now = 0
  /\ ticks = 0
  /\ sessions = <<>>
  /\ usedTokens = {}
  /\ areq = Idle
  /\ posts = <<>>
  /\ comments = <<>>
  /\ nextID = 1
  /\ approveApplied = {}
  /\ resp = Resp("none", 0)
  /\ cfgPass = <<1>>
  /\ auth = NewAuthMiddleware("admin", cfgPass)
  /\ cred = NoCred
  /\ rl = NoLimiter
  /\ rlog = <<>>
  /\ call = NoCall
  /\ reqs = [p \in Procs |-> IdleConn]
  /\ services = <<>>
  /\ pool = 0
  /\ srv = [pc |-> "serving", deadline |-> 0, err |-> "", closed |-> FALSE]
  /\ items = <<>>
  /\ heap = <<>>
  /\ logins = <<>>

\* srv.ListenAndServe accepts a request and starts its handler; after
\* Shutdown closed the listeners no request is accepted
Accept(p) ==
  /\ srv.pc = "serving"
  /\ reqs[p].pc = "idle"
  /\ reqs' = [reqs EXCEPT ![p] = [pc |-> "handler", ops |-> 0, late |-> 0]]
  /\ UNCHANGED <<now, srv, shutFrame>>

\* A handler calls a method of *db.DB; on a closed handle database/sql
\* answers "sql: database is closed".  The goroutine runs until the process
\* exits.
DatastoreOp(p) ==
  /\ srv.pc # "exited"
  /\ reqs[p].pc = "handler"
  /\ reqs[p].ops < MaxOps
  /\ reqs' = [reqs EXCEPT ![p].ops = @ + 1,
                          ![p].late = IF srv.closed THEN @ + 1 ELSE @]
  /\ UNCHANGED <<now, srv, shutFrame>>

\* The handler returns and its connection becomes idle
Finish(p) ==
  /\ srv.pc # "exited"
  /\ reqs[p].pc = "handler"
  /\ reqs' = [reqs EXCEPT ![p].pc = "idle"]
  /\ UNCHANGED <<now, srv, shutFrame>>

\* <-stop receives SIGINT or SIGTERM; main calls srv.Shutdown with a
\* context that ends GracePeriod later, and Shutdown closes the listeners
Signal ==
  /\ srv.pc = "serving"
  /\ srv' = [srv EXCEPT !.pc = "shutdown", !.deadline = now + GracePeriod]
  /\ UNCHANGED <<now, reqs, shutFrame>>

\* srv.Shutdown(ctx) returns nil once every connection is idle, or ctx.Err()
\* once the context is done, whatever the handlers are doing
ShutdownReturns ==
  /\ srv.pc = "shutdown"
  /\ \/ /\ \A p \in Procs : reqs[p].pc = "idle"
        /\ srv' = [srv EXCEPT !.pc = "stopped", !.err = ""]
     \/ /\ now >= srv.deadline
        /\ \E p \in Procs : reqs[p].pc # "idle"
        /\ srv' = [srv EXCEPT !.pc = "stopped",
                              !.err = "context deadline exceeded"]
  /\ UNCHANGED <<now, reqs, shutFrame>>

\* main returns: the deferred database.Close() runs
CloseDatabase ==
  /\ srv.pc = "stopped"
  /\ srv' = [srv EXCEPT !.pc = "closed", !.closed = TRUE]
  /\ UNCHANGED <<now, reqs, shutFrame>>

\* The process exits and every goroutine ends with it
Exit ==
  /\ srv.pc = "closed"
  /\ srv' = [srv EXCEPT !.pc = "exited"]
  /\ UNCHANGED <<now, reqs, shutFrame>>

NextShutdown ==
  \/ \E p \in Procs : Accept(p)
  \/ \E p \in Procs : DatastoreOp(p)
  \/ \E p \in Procs : Finish(p)
  \/ Signal
  \/ ShutdownReturns
  \/ CloseDatabase
  \/ Exit
  \/ \E d \in {1, GracePeriod} : Tick(d)

SpecShutdown == InitShutdown /\ [][NextShutdown]_vars

\* C21: the datastore handle is closed only after Shutdown has returned
\* and the server accepts no request, and no handler makes a datastore
\* call on the closed handle, also when the grace period ran out with a
\* request in flight
C21_CloseAfterDrain ==
  /\ srv.closed => srv.pc \in {"closed", "exited"}
  /\ \A p \in Procs : reqs[p].late = 0

\* ------------------------------------------------------------------------
\* The in-memory cache: items by key, each with a value and an expiration
\* (0: none)
\* ------------------------------------------------------------------------
CacheKeys == {"k1", "k2"}
CacheValues == {1, 2}
TTLs == {-1, 0, 1}
Miss == [val |-> NULL, found |-> FALSE]

\* Cache.Set at time t: the expiration is t + ttl for a positive ttl, else 0
CacheSet(its, key, value, ttl, t) ==
  Put(its, key, [Value |-> value,
                 Expiration |-> IF ttl > 0 THEN t + ttl ELSE 0])

\* Mutant: Get without the expiry test
CacheGet_noExpiryTest(its, key, t) ==
  IF key \notin DOMAIN its THEN Miss
  ELSE [val |-> its[key].Value, found |-> TRUE]

\* Cache.Get at time t
CacheGet(its, key, t) ==
  IF key \notin DOMAIN its THEN Miss
  ELSE IF its[key].Expiration > 0 /\ t > its[key].Expiration THEN Miss
  ELSE [val |-> its[key].Value, found |-> TRUE]

\* Cache.Delete
CacheDelete(its, key) == Remove(its, key)

\* Cache.Clear
CacheClear == <<>>

\* Cache.deleteExpired at time t
deleteExpired(its, t) ==
  [k \in {x \in DOMAIN its :
            ~(its[x].Expiration > 0 /\ t > its[x].Expiration)} |-> its[k]]

cacheFrame == <<now, ticks, sessions, usedTokens, areq, dbVars,
                approveApplied, resp, auth, cfgPass, cred, rateVars,
                services, pool, srv, heap, logins>>

\* cache.New(): no item.  call.arg remembers, for each key, the last Set
\* that no Delete or Clear followed: its value, its ttl and its time.
InitCache ==
  /\ now = 0
  /\ ticks = 0
  /\ sessions = <<>>
  /\ usedTokens = {}
  /\ areq = Idle
  /\ posts = <<>>
  /\ comments = <<>>
  /\ nextID = 1
  /\ approveApplied = {}
  /\ resp = Resp("none", 0)
  /\ cfgPass = <<1>>
  /\ auth = NewAuthMiddleware("admin", cfgPass)
  /\ cred = NoCred
  /\ rl = NoLimiter
  /\ rlog = <<>>
  /\ call = NoCall
  /\ reqs = <<>>
  /\ services = <<>>
  /\ pool = 0
  /\ srv = NoServer
  /\ items = <<>>
  /\ heap = <<>>
  /\ logins = <<>>

CallCacheSet(key, value, ttl) ==
  /\ items' = CacheSet(items, key, value, ttl, now)
  /\ call' = [fn |-> "Set",
              arg |-> Put(call.arg, key,
                          [value |-> value, ttl |-> ttl, at |-> now]),
              out |-> <<>>, done |-> TRUE]
  /\ UNCHANGED <<reqs, cacheFrame>>

CallCacheGet(key) ==
  /\ call' = [fn |-> "Get", arg |-> call.arg,
              out |-> [key |-> key, at |-> now,
                       res |-> CacheGet(items, key, now)],
              done |-> TRUE]
  /\ UNCHANGED <<items, reqs, cacheFrame>>

CallCacheDelete(key) ==
  /\ items' = CacheDelete(items, key)
  /\ call' = [fn |-> "Delete", arg |-> Remove(call.arg, key),
              out |-> <<>>, done |-> TRUE]
  /\ UNCHANGED <<reqs, cacheFrame>>

CallCacheClear ==
  /\ items' = CacheClear
  /\ call' = [fn |-> "Clear", arg |-> <<>>, out |-> <<>>, done |-> TRUE]
  /\ UNCHANGED <<reqs, cacheFrame>>

\* One round of the ticker loop of startCleanup
startCleanup ==
  /\ now >= CleanupPeriod
  /\ items' = deleteExpired(items, now)
  /\ call' = [call EXCEPT !.fn = "deleteExpired", !.out = <<>>]
  /\ UNCHANGED <<reqs, cacheFrame>>

NextCache ==
  \/ \E k \in CacheKeys, v \in CacheValues, ttl \in TTLs :
       CallCacheSet(k, v, ttl)
  \/ \E k \in CacheKeys : CallCacheGet(k)
  \/ \E k \in CacheKeys : CallCacheDelete(k)
  \/ CallCacheClear
  \/ startCleanup
  \/ \E d \in {1, CleanupPeriod} : Tick(d)

SpecCache == InitCache /\ [][NextCache]_vars

\* C22: a Get that finds a value finds the value of the key's last Set,
\* no later than that Set's time plus its ttl when the ttl is positive,
\* whether or not the cleanup has run; and a key last set with ttl 0 and
\* not deleted or cleared since is found by every Get
C22_GetHonoursTTL ==
  call.fn = "Get" =>
    LET k == call.out.key
        r == call.out.res
        set == call.arg
    IN /\ r.found =>
           /\ k \in DOMAIN set
           /\ r.val = set[k].value
           /\ set[k].ttl > 0 => call.out.at <= set[k].at + set[k].ttl
       /\ (k \in DOMAIN set /\ set[k].ttl = 0) =>
           (r.found /\ r.val = set[k].value)

\* A Get misses an item whose ttl has run out while the cleanup has not
\* removed it, and a Get after the cleanup period finds an item set with
\* ttl 0
C22_Witness ==
  /\ call.fn = "Get"
  /\ LET k == call.out.key
     IN /\ k \in DOMAIN items
        /\ items[k].Expiration > 0
        /\ now > items[k].Expiration
        /\ ~call.out.res.found
        /\ \E j \in DOMAIN items : items[j].Expiration = 0

\* ------------------------------------------------------------------------
\* Cache.GetOrSet, step by step: c.Get, the call of fn, c.Set
\* ------------------------------------------------------------------------
\* The keys the callers of GetOrSet use
GetOrSetKeys == {"k1"}

IdleCaller == [pc |-> "idle", key |-> "", ttl |-> 0, val |-> NULL]

InitGetOrSet ==
  /\ now = 0
  /\ ticks = 0
  /\ sessions = <<>>
  /\ usedTokens = {}
  /\ areq = Idle
  /\ posts = <<>>
  /\ comments = <<>>
  /\ nextID = 1
  /\ approveApplied = {}
  /\ resp = Resp("none", 0)
  /\ cfgPass = <<1>>
  /\ auth = NewAuthMiddleware("admin", cfgPass)
  /\ cred = NoCred
  /\ rl = NoLimiter
  /\ rlog = <<>>
  /\ call = NoCall
  /\ reqs = [p \in Procs |-> IdleCaller]
  /\ services = <<>>
  /\ pool = 0
  /\ srv = NoServer
  /\ items = <<>>
  /\ heap = <<>>
  /\ logins = <<>>

\* What GetOrSet returned: the value or the error, and whether the value
\* came from the cache
Returned(key, val, err, hit) ==
  [fn |-> "GetOrSet", arg |-> <<>>,
   out |-> [key |-> key, val |-> val, err |-> err, hit |-> hit],
   done |-> TRUE]

\* Mutant: GetOrSet without the lookup
GetOrSetGet_noLookup(p, key, ttl) ==
  /\ reqs[p].pc = "idle"
  /\ reqs' = [reqs EXCEPT ![p] = [pc |-> "fn", key |-> key, ttl |-> ttl,
                                  val |-> NULL]]
  /\ UNCHANGED <<items, call, cacheFrame>>

\* if val, found := c.Get(key); found { return val, nil }
GetOrSetGet(p, key, ttl) ==
  /\ reqs[p].pc = "idle"
  /\ LET r == CacheGet(items, key, now)
     IN IF r.found
        THEN /\ call' = Returned(key, r.val, FALSE, TRUE)
             /\ UNCHANGED reqs
        ELSE /\ reqs' = [reqs EXCEPT ![p] = [pc |-> "fn", key |-> key,
                                             ttl |-> ttl, val |-> NULL]]
             /\ UNCHANGED call
  /\ UNCHANGED <<items, cacheFrame>>

\* val, err := fn(); if err != nil { return nil, err }
GetOrSetFn(p, val, err) ==
  /\ reqs[p].pc = "fn"
  /\ IF err
     THEN /\ call' = Returned(reqs[p].key, NULL, TRUE, FALSE)
          /\ reqs' = [reqs EXCEPT ![p] = IdleCaller]
     ELSE /\ reqs' = [reqs EXCEPT ![p].pc = "set", ![p].val = val]
          /\ UNCHANGED call
  /\ UNCHANGED <<items, cacheFrame>>

\* c.Set(key, val, ttl); return val, nil
GetOrSetSet(p) ==
  /\ reqs[p].pc = "set"
  /\ items' = CacheSet(items, reqs[p].key, reqs[p].val, reqs[p].ttl, now)
  /\ call' = Returned(reqs[p].key, reqs[p].val, FALSE, FALSE)
  /\ reqs' = [reqs EXCEPT ![p] = IdleCaller]
  /\ UNCHANGED cacheFrame

NextGetOrSet ==
  \/ \E p \in Procs, k \in GetOrSetKeys, ttl \in {0, 1} : GetOrSetGet(p, k, ttl)
  \/ \E p \in Procs, v \in CacheValues, err \in BOOLEAN :
       GetOrSetFn(p, v, err)
  \/ \E p \in Procs : GetOrSetSet(p)
  \/ startCleanup
  \/ \E d \in {1, CleanupPeriod} : Tick(d)

SpecGetOrSet == InitGetOrSet /\ [][NextGetOrSet]_vars

\* C23: a GetOrSet that starts while a value is stored under its key and
\* the value's expiration has not passed returns that value without
\* calling the function and leaves the cache as it is; and a GetOrSet
\* whose function returns an error returns the error and stores nothing
C23_GetOrSetCallsOnMiss ==
  [][/\ \A p \in Procs, k \in GetOrSetKeys, ttl \in {0, 1} :
          (/\ GetOrSetGet(p, k, ttl)
           /\ k \in DOMAIN items
           /\ (items[k].Expiration = 0 \/ now <= items[k].Expiration))
          => /\ reqs'[p].pc = "idle"
             /\ call'.out = [key |-> k, val |-> items[k].Value,
                             err |-> FALSE, hit |-> TRUE]
             /\ items' = items
     /\ \A p \in Procs, v \in CacheValues :
          GetOrSetFn(p, v, TRUE)
          => /\ items' = items
             /\ reqs'[p].pc = "idle"
             /\ call'.out.err /\ call'.out.val = NULL]_vars

\* A GetOrSet has returned a stored value from the cache after time
\* passed, while another caller is in its function
C23_Witness ==
  /\ call.fn = "GetOrSet"
  /\ call.out.hit
  /\ now > 0
  /\ call.out.key \in DOMAIN items
  /\ \E p \in Procs : reqs[p].pc = "fn"

\* ------------------------------------------------------------------------
\* Logout against concurrent RequireAuth calls
\* ------------------------------------------------------------------------
\* C24: from the moment HandleLogout has deleted the session of token 1,
\* the token is not in the session store again and no request carrying it
\* that reads the store afterwards finds it there, whatever requests were
\* between their lookup and their extension when the logout ran
C24_LogoutIsFinal ==
  [][resp.h = "HandleLogout" =>
       /\ 1 \notin DOMAIN sessions'
       /\ \A p \in Procs :
            ~(reqs[p].pc = "idle" /\ reqs'[p].pc = "looked"
              /\ reqs'[p].cookie = 1 /\ reqs'[p].look.exists)]_vars

\* ------------------------------------------------------------------------
\* The session sweep among logins, logouts and authenticated requests
\* ------------------------------------------------------------------------
\* No session, one connection on which the logins (rand.Read succeeding)
\* and the requests through RequireAuth are served one after the other
InitSweep ==
  /\ now = 0
  /\ ticks = 0
  /\ sessions = <<>>
  /\ usedTokens = {}
  /\ areq = Idle
  /\ posts = <<>>
  /\ comments = <<>>
  /\ nextID = 1
  /\ approveApplied = {}
  /\ resp = Resp("none", 0)
  /\ cfgPass = <<1>>
  /\ auth = NewAuthMiddleware("admin", cfgPass)
  /\ cred = NoCred
  /\ rl = NoLimiter
  /\ rlog = <<>>
  /\ call = NoCall
  /\ reqs = [p \in {1} |-> IdleReq]
  /\ services = <<>>
  /\ pool = 0
  /\ srv = NoServer
  /\ items = <<>>
  /\ heap = <<>>
  /\ logins = <<>>

NextSweep ==
  \/ \E d \in {1, SessionTTL} : Tick(d)
  \/ /\ logins = <<>>
     /\ reqs[1].pc = "idle"
     /\ HandleLogin("admin", <<1>>, FreshToken(usedTokens))
  \/ CreateSession(1)
  \/ logins = <<>> /\ \E c \in Cookies : LookupSession(1, c)
  \/ CheckSession(1)
  \/ ExtendChecked(1)
  \/ CallNext(1)
  \/ \E c \in Cookies : HandleLogout(c)
  \/ cleanupSessions

\* The ticker of cleanupSessions fires every hour, whatever the requests do
SpecSweep == InitSweep /\ [][NextSweep]_vars /\ WF_vars(cleanupSessions)

\* C25: a run of the sweep removes the tokens whose expiry is earlier than
\* the time of the sweep, keeps every other token with its expiry and adds
\* none; and with the sweep timer firing again and again, a token whose
\* expiry has passed is in the end removed, unless a request extends it
C25_SweepRemovesExactlyExpired ==
  /\ [][cleanupSessions =>
          /\ DOMAIN sessions' \subseteq DOMAIN sessions
          /\ \A k \in DOMAIN sessions :
               /\ sessions[k] < now => k \notin DOMAIN sessions'
               /\ sessions[k] >= now =>
                    (k \in DOMAIN sessions' /\ sessions'[k] = sessions[k])]_vars
  /\ \A k \in Tokens :
       (k \in DOMAIN sessions /\ sessions[k] < now)
         ~> (k \notin DOMAIN sessions \/ sessions[k] >= now)

\* A sweep time at which one token's expiry has passed and another token
\* expires at that very time
C25_Witness ==
  /\ now >= SweepPeriod
  /\ \E j, k \in DOMAIN sessions : sessions[j] < now /\ sessions[k] = now

\* ------------------------------------------------------------------------
\* The rate limiter: NewRateLimiter, the RateLimit wrapper step by step,
\* the refill of the buckets and the cleanup loop.  rl.limiters maps an
\* address to a pointer, heap maps a pointer to the tokens of its
\* *rate.Limiter, and reqs[p] holds the pointer request p obtained.  rlog
\* keeps, per address, the answers given to its requests since a bucket of
\* the address was created, as long as no refill time passed; a request in
\* flight when time passes (stale) is not part of that record.
\* ------------------------------------------------------------------------
\* The connections served at the same time
Conns == {1, 2}
IdleRate == [pc |-> "idle", ip |-> "", limiter |-> NULL, stale |-> FALSE]

evictFrame == <<now, ticks, sessions, usedTokens, areq, dbVars,
                approveApplied, auth, cfgPass, cred, call, services, pool,
                srv, items, logins>>

\* NewRateLimiter(r, b): an empty map of limiters; the burst b is the
\* configuration
InitRate ==
  /\ now = 0
  /\ ticks = 0
  /\ sessions = <<>>
  /\ usedTokens = {}
  /\ areq = Idle
  /\ posts = <<>>
  /\ comments = <<>>
  /\ nextID = 1
  /\ approveApplied = {}
  /\ resp = Resp("none", 0)
  /\ cfgPass = <<1>>
  /\ auth = NewAuthMiddleware("admin", cfgPass)
  /\ cred = NoCred
  /\ \E b \in 0..MaxBurst : rl = [b |-> b, limiters |-> <<>>]
  /\ rlog = <<>>
  /\ call = NoCall
  /\ reqs = [p \in Conns |-> IdleRate]
  /\ services = <<>>
  /\ pool = 0
  /\ srv = NoServer
  /\ items = <<>>
  /\ heap = <<>>
  /\ logins = <<>>

\* The answers recorded for the requests of address ip
Answers(ip) == IF ip \in DOMAIN rlog THEN rlog[ip] ELSE <<>>

\* The requests that hold a bucket and have not called Allow yet
InFlight(rq) == {p \in DOMAIN rq : rq[p].pc = "got"}

\* The buckets a map entry or a request in flight points to; the others
\* are garbage
Live(limiters, rq) ==
  {limiters[ip] : ip \in DOMAIN limiters}
    \cup {rq[p].limiter : p \in InFlight(rq)}

Collect(hp, limiters, rq) ==
  [l \in DOMAIN hp \cap Live(limiters, rq) |-> hp[l]]

\* rate.NewLimiter: an address no live bucket has
NewPointer(hp) ==
  CHOOSE n \in 1..(Cardinality(DOMAIN hp) + 1) :
    n \notin DOMAIN hp /\ \A m \in 1..(n - 1) : m \in DOMAIN hp

\* limiter := rl.getLimiter(ip), under rl.mu: the bucket the map holds for
\* the address, or a new full one put into the map
getLimiter(p, ip) ==
  /\ reqs[p].pc = "idle"
  /\ Len(Answers(ip)) + Cardinality(InFlight(reqs)) <= rl.b
  /\ IF ip \in DOMAIN rl.limiters
     THEN /\ reqs' = [reqs EXCEPT ![p] = [pc |-> "got", ip |-> ip,
                                          limiter |-> rl.limiters[ip],
                                          stale |-> FALSE]]
          /\ UNCHANGED <<rl, heap, rlog>>
     ELSE LET new == NewPointer(heap)
          IN /\ heap' = Put(heap, new, rl.b)
             /\ rl' = [rl EXCEPT !.limiters = Put(@, ip, new)]
             /\ reqs' = [reqs EXCEPT ![p] = [pc |-> "got", ip |-> ip,
                                             limiter |-> new,
                                             stale |-> FALSE]]
             /\ rlog' = IF ip \in DOMAIN rlog THEN rlog
                        ELSE Put(rlog, ip, <<>>)
  /\ UNCHANGED <<resp, evictFrame>>

\* The RateLimit wrapper for request r of connection p, up to the return
\* of getLimiter: ip := getIP(r); limiter := rl.getLimiter(ip)
RateLimit(p, r) == getLimiter(p, getIP(r))

\* The rest of the wrapper, rl.mu not held:
\* if !limiter.Allow() { 429; return }; next(w, r), on the bucket obtained
AllowOrReject(p) ==
  /\ reqs[p].pc = "got"
  /\ LET l == reqs[p].limiter
         ip == reqs[p].ip
         ok == Allow(heap[l])
         ans == IF ok THEN [status |-> StatusOK, handled |-> TRUE]
                ELSE [status |-> StatusTooManyRequests, handled |-> FALSE]
         drawn == IF ok THEN [heap EXCEPT ![l] = @ - 1] ELSE heap
     IN /\ reqs' = [reqs EXCEPT ![p] = IdleRate]
        /\ heap' = Collect(drawn, rl.limiters, reqs')
        /\ rlog' = IF ~reqs[p].stale /\ ip \in DOMAIN rlog
                   THEN Put(rlog, ip, Append(rlog[ip], ans))
                   ELSE rlog
        /\ resp' = IF ok THEN Resp("next", StatusOK)
                   ELSE Resp("RateLimit", StatusTooManyRequests)
  /\ UNCHANGED <<rl, evictFrame>>

\* Time passes: every bucket gains one token, up to the burst
Refill ==
  /\ heap' = [l \in DOMAIN heap |->
                IF heap[l] < rl.b THEN heap[l] + 1 ELSE heap[l]]
  /\ rlog' = <<>>
  /\ reqs' = [p \in DOMAIN reqs |->
                IF reqs[p].pc = "got" THEN [reqs[p] EXCEPT !.stale = TRUE]
                ELSE reqs[p]]
  /\ UNCHANGED <<rl, resp, evictFrame>>

\* One round of the ticker loop of cleanupLimiters, under rl.mu: the map
\* entries whose bucket holds the whole burst are deleted
cleanupLimiters ==
  /\ rl' = [rl EXCEPT !.limiters =
              [ip \in {x \in DOMAIN @ : heap[@[x]] # rl.b} |-> @[ip]]]
  /\ heap' = Collect(heap, rl'.limiters, reqs)
  /\ UNCHANGED <<rlog, resp, reqs, evictFrame>>

NextRate ==
  \/ \E p \in Conns, r \in Requests : RateLimit(p, r)
  \/ \E p \in Conns : AllowOrReject(p)
  \/ Refill
  \/ cleanupLimiters

SpecRate == InitRate /\ [][NextRate]_vars

\* C4: for an address whose bucket was created with burst N and has seen
\* no refill since, the first N requests are answered by the wrapped
\* handler and every later one by 429 without the handler being invoked.
C4_BurstThenReject ==
  \A ip \in DOMAIN rlog :
    \A i \in 1..Len(rlog[ip]) :
      IF i <= rl.b
      THEN rlog[ip][i] = [status |-> StatusOK, handled |-> TRUE]
      ELSE rlog[ip][i] = [status |-> StatusTooManyRequests, handled |-> FALSE]

\* C19: two requests of one address that hold a bucket at the same time
\* hold the same bucket, and a request is charged to the bucket of its own
\* address and to no other.  getLimiter gives it the bucket the map holds
\* for its address, or a new full one entered under that address, and
\* leaves all other buckets and entries as they were; the bucket it draws
\* from is not the bucket of any other address, in the map or in the hand
\* of a request; its step of Allow leaves the buckets of the other
\* addresses as they were, takes one token from its own when the request
\* is admitted, and answers 429 only when its own bucket has no token.
C19_BucketPerAddress ==
  /\ [](\A p, q \in InFlight(reqs) :
         reqs[p].ip = reqs[q].ip => reqs[p].limiter = reqs[q].limiter)
  /\ [][\A p \in Conns :
          /\ (reqs[p].pc = "idle" /\ reqs'[p].pc = "got") =>
               LET ip == reqs'[p].ip
                   l == reqs'[p].limiter
               IN /\ ip \in DOMAIN rl.limiters =>
                       l = rl.limiters[ip] /\ rl' = rl /\ heap' = heap
                  /\ ip \notin DOMAIN rl.limiters =>
                       /\ l \notin DOMAIN heap
                       /\ rl'.limiters = Put(rl.limiters, ip, l)
                       /\ heap' = Put(heap, l, rl.b)
          /\ (reqs[p].pc = "got" /\ reqs'[p].pc = "idle") =>
               LET ip == reqs[p].ip
                   l == reqs[p].limiter
               IN /\ rl' = rl
                  /\ \A other \in DOMAIN rl.limiters \ {ip} :
                       /\ rl.limiters[other] # l
                       /\ heap'[rl.limiters[other]] = heap[rl.limiters[other]]
                  /\ \A q \in InFlight(reqs) :
                       reqs[q].ip # ip =>
                         /\ reqs[q].limiter # l
                         /\ heap'[reqs[q].limiter] = heap[reqs[q].limiter]
                  /\ resp'.status = StatusTooManyRequests <=> heap[l] = 0
                  /\ l \in DOMAIN heap' =>
                       heap'[l] = IF heap[l] = 0 THEN 0 ELSE heap[l] - 1]_vars

\* ------------------------------------------------------------------------
\* The cleanup sweep among the concurrent requests of one address, no
\* refill time passing
\* ------------------------------------------------------------------------
EvictRequests ==
  {[forwarded |-> "", realIP |-> "", remoteAddr |-> "10.0.0.1:1"]}

NextEvict ==
  \/ \E p \in Conns, r \in EvictRequests : RateLimit(p, r)
  \/ \E p \in Conns : AllowOrReject(p)
  \/ cleanupLimiters

SpecEvict == InitRate /\ [][NextEvict]_vars

\* C26: with no refill, the requests of one address that were admitted
\* never number more than the burst, however the cleanup sweep falls
\* between the steps of concurrent requests
C26_EvictionKeepsLimit ==
  \A ip \in DOMAIN rlog :
    Cardinality({i \in 1..Len(rlog[ip]) : rlog[ip][i].handled}) <= rl.b

\* ------------------------------------------------------------------------
\* POST /admin/login behind the rate limiter, all requests sent by one
\* client host
\* ------------------------------------------------------------------------
ClientHost == "10.0.0.1"
ClientPorts == {"1", "2"}

\* r.RemoteAddr as net/http sets it: "IP:port" of the connection
RemoteAddr(host, port) == host \o ":" \o port

\* The requests the client host can send: any header values, any of its
\* source ports
ClientRequests ==
  [forwarded : {"", "1.1.1.1"}, realIP : {"", "2.2.2.2"},
   remoteAddr : {RemoteAddr(ClientHost, p) : p \in ClientPorts}]

\* rateLimiter.RateLimit(app.HandleLogin) for the requests of the client
\* host
NextBrute ==
  \/ \E p \in Conns, r \in ClientRequests : RateLimit(p, r)
  \/ \E p \in Conns : AllowOrReject(p)

SpecBrute == InitRate /\ [][NextBrute]_vars

RECURSIVE AdmittedIn(_)
\* The number of admitted requests in the logs of the addresses in S
AdmittedIn(S) ==
  IF S = {} THEN 0
  ELSE LET ip == CHOOSE x \in S : TRUE
       IN Cardinality({i \in 1..Len(rlog[ip]) : rlog[ip][i].handled})
          + AdmittedIn(S \ {ip})

\* C27: with no refill, the login requests of one client host that reach
\* HandleLogin never number more than the burst, whatever header values
\* and source ports the host uses
C27_LoginLimitPerHost == AdmittedIn(DOMAIN rlog) <= rl.b

\* ------------------------------------------------------------------------
\* Starts of the program on one data directory: the tables and the marker
\* file stay, the YAML configuration is read anew on every start
\* ------------------------------------------------------------------------
\* srv counts the starts and remembers whether MigrateFromYAML returned
\* without error on an earlier start.  A fresh data directory: no marker,
\* empty tables.
InitRestart ==
  /\ now = 0
  /\ ticks = 0
  /\ sessions = <<>>
  /\ usedTokens = {}
  /\ areq = Idle
  /\ posts = <<>>
  /\ comments = <<>>
  /\ nextID = 1
  /\ approveApplied = {}
  /\ resp = Resp("none", 0)
  /\ cfgPass = <<1>>
  /\ auth = NewAuthMiddleware("admin", cfgPass)
  /\ cred = NoCred
  /\ rl = NoLimiter
  /\ rlog = <<>>
  /\ services = <<>>
  /\ pool = 0
  /\ srv = [starts |-> 1, migrated |-> FALSE]
  /\ items = <<>>
  /\ heap = <<>>
  /\ logins = <<>>
  /\ reqs = (MainProc :> [IdleProc EXCEPT !.pc = "start"])
              @@ (HttpProc :> IdleProc)
  /\ \E ps \in YamlLists(PostIds), ss \in YamlLists({"s1"}) :
       call = [fn |-> "MigrateFromYAML",
               arg |-> [posts |-> ps, services |-> ss],
               out |-> FALSE, done |-> FALSE]

\* An admitted DELETE /api/posts/{id} once the server runs
DeletePostRequest(id) ==
  /\ reqs[MainProc].pc = "serving"
  /\ reqs[HttpProc].pc = "idle"
  /\ reqs' = [reqs EXCEPT ![HttpProc] =
                [IdleProc EXCEPT !.pc = "DeletePost", !.key = id]]
  /\ UNCHANGED <<migFrame, call, pool>>

\* The program is stopped, wherever main and the request in progress are,
\* and started again with the configuration of that time.  The database
\* file and the marker file are as the run left them; the transaction of
\* MigrateFromYAML has written nothing of its own before its Commit.
Restart(ps, ss) ==
  /\ srv.starts < MaxStarts
  /\ srv' = [starts |-> srv.starts + 1,
             migrated |-> (srv.migrated \/ call.done)]
  /\ reqs' = (MainProc :> [IdleProc EXCEPT !.pc = "start"])
               @@ (HttpProc :> IdleProc)
  /\ pool' = 0
  /\ call' = [fn |-> "MigrateFromYAML",
              arg |-> [posts |-> ps, services |-> ss],
              out |-> call.out, done |-> FALSE]
  /\ UNCHANGED <<now, ticks, sessions, usedTokens, areq, dbVars,
                 approveApplied, resp, auth, cfgPass, cred, rateVars,
                 services, items, heap,
                 logins>>

NextRestart ==
  \/ MainStep
  \/ \E id \in PostIds, v \in Vals : SavePostRequest(id, v)
  \/ \E id \in PostIds : DeletePostRequest(id)
  \/ ExecStatement(HttpProc)
  \/ \E ps \in YamlLists(PostIds), ss \in YamlLists({"s1"}) :
       Restart(ps, ss)

SpecRestart == InitRestart /\ [][NextRestart]_vars

\* The positions of main inside MigrateFromYAML and before the marker is
\* written
InMigration ==
  reqs[MainProc].pc \in {"begin", "posts", "services", "SaveService.exists",
                         "SaveService.write", "commit", "marker"}

\* C28: once MigrateFromYAML has returned without error on some start, no
\* later start calls it again, and the steps of main on a later start
\* leave the posts and the services as the admin requests left them
C28_MigratesAtMostOnce ==
  /\ [](srv.migrated => ~InMigration)
  /\ [][(srv.migrated /\ MainStep) =>
          (posts' = posts /\ services' = services)]_vars

\* ------------------------------------------------------------------------
\* Referential integrity of the comments table
\* ------------------------------------------------------------------------
\* C29: in every reachable state each stored comment belongs to a post
\* that exists, and each parent_id that is not NULL is the id of a stored
\* comment
C29_ReferentialIntegrity ==
  \A i \in DOMAIN comments :
    /\ comments[i].post_id \in DOMAIN posts
    /\ comments[i].parent_id # NULL => comments[i].parent_id \in DOMAIN comments

\* ------------------------------------------------------------------------
\* Tags through SavePost and GetPostByID
\* ------------------------------------------------------------------------
\* C30: for every post saved and not deleted since, GetPostByID returns
\* the tag list given to SavePost, tag by tag and in the same order, and
\* parseTagsFromString undoes joinTags on that list
C30_TagsRoundTrip ==
  \A id \in DOMAIN call.arg :
    /\ GetPostByID(posts, id).tags = call.arg[id].tags
    /\ parseTagsFromString(joinTags(call.arg[id].tags)) = call.arg[id].tags

====
